---- MODULE Spec2Model ----
(***************************************************************************)
(* A model of the rain-event / Sentinel-1 pairing pipeline of rainsar-hub: *)
(*   - the rain-event segmentation loops of build_gsmap_events.py and      *)
(*     download_s1_events_by_grid.py,                                      *)
(*   - the CDSE client (token cache, STAC search with retries, after and   *)
(*     before scene lookup) of app/services/s1_cdse_client.py,             *)
(*   - the download endpoints of app/api/grids.py (start, cancel, status   *)
(*     and the background download routine),                               *)
(*   - the orchestrators that store pairs of scenes in s1_pairs.           *)
(* Each subsystem has its own specification over the shared variables; the *)
(* variables of the other subsystems stay at their initial values.         *)
(***************************************************************************)
EXTENDS Integers, Sequences, FiniteSets, TLC

VARIABLES
    \* ---- event segmentation ----
    script,        \* which segmentation loop runs
    dry_run,       \* args.dry_run of build_gsmap_events.py
    batch_size,    \* args.batch_size of build_gsmap_events.py
    rows,          \* the readings consumed so far, in query order
    seg,           \* the locals of the running loop (see BuildSegInit, GridSegInit)
    segDone        \* the loop and the final flush are over

segVars == <<script, dry_run, batch_size, rows, seg, segDone>>

VARIABLES
    \* ---- scene lookup (find_after_scene, find_before_scene_unbounded) ----
    mPc,            \* "idle", "after_done", "before" (in the tier loop), "before_done"
    event_end_utc,  \* argument of find_after_scene
    after_hours,    \* argument of find_after_scene
    ref_time_utc,   \* argument of find_before_scene_unbounded
    want,           \* its platform / orbit_direction / relative_orbit arguments
    searches,       \* the calls of search_grd_point_time so far, in order
    scenes,         \* what the latest call of search_grd_point_time returned
    tierBest,       \* per search: the latest acquisition time before ref_time_utc
                    \* among the scenes it returned (None when there is none)
    found           \* the scene returned to the caller (NoScene for None)

matchVars == <<mPc, event_end_utc, after_hours, ref_time_utc, want, searches, scenes,
               tierBest, found>>

VARIABLES
    \* ---- the client's token cache and its calls (S1CDSEClient) ----
    creds,            \* settings.CDSE_CLIENT_ID and CDSE_CLIENT_SECRET are set
    now,              \* the clock, in milliseconds
    access_token,     \* self._access_token: a token id, None before the first token
    token_expire_at,  \* self._token_expire_at
    issued,           \* the tokens the token endpoint issued: id -> time and lifetime
    th                \* per worker thread: where it is in its call, the call's locals
                      \* and the requests the call has sent

clientVars == <<creds, now, access_token, token_expire_at, issued, th>>

VARIABLES
    \* ---- the download endpoints of app/api/grids.py ----
    download_tasks,         \* product -> progress (tenths of a percent)
    cancellation_requests,  \* the products whose cancellation was requested
    file,                   \* the size (in chunks) of the product's zip under
                            \* s1_safe_path, None when there is no such file
    triggers,               \* the .req files under _triggers: <<grid_id, product>>
    rt,                     \* per background routine: where run_download is and
                            \* the locals of its download_product call
    cancel_pc               \* the handler of /download/cancel: "idle", or "add"
                            \* between its test of the task map and its answer

dlVars == <<download_tasks, cancellation_requests, file, triggers, rt, cancel_pc>>

VARIABLES
    \* ---- the pairing orchestrators ----
    s1_pairs,   \* the rows of the table s1_pairs
    lastRun     \* what the latest orchestrator step saw and did (see LastOf)

pairVars == <<s1_pairs, lastRun>>

VARIABLES
    \* ---- the event loops of the batch scripts ----
    bScript,    \* which script runs: "build", "grid" or "nationwide"
    units,      \* the events of one grid cell (by event start) in the order in
                \* which the loop takes them
    outcomes,   \* what happened to the events taken so far, in that order
    bState      \* "running", "done" (the loop ran to its end) or "aborted"
                \* (an exception left the loop)

batchVars == <<bScript, units, outcomes, bState>>

VARIABLES
    \* ---- the OData product lookup (_get_odata_id_by_name) ----
    product_name,   \* the argument of the running call, <<>> when none runs
    odata_pc,       \* "idle", "exact" or "fuzzy" (the query to send next),
                    \* "ret" (the call has returned)
    queries,        \* the queries the call has sent, in order: the filter, the
                    \* name stem it asked for and the Id of its hit (None for
                    \* an empty or failed response)
    odata_id,       \* what the call returned (None for not found)
    products        \* the product catalogue

odataVars == <<product_name, odata_pc, queries, odata_id, products>>

VARIABLES
    \* ---- the preprocessing watcher (watch_process.py) and the files Status reads ----
    raw_path,       \* per request: the raw zip exists in s1_safe
    trigger_file,   \* per request: _triggers/<grid_id>___<stem>.req exists
    status_file,    \* per request: the "status" of _status/<grid_id>___<stem>.json,
                    \* "none" when the file does not exist
    proc_path,      \* per request: <grid_id>/<stem>_proc.tif exists
    fetching,       \* the requests whose product is in download_tasks
    created,        \* the on_created events the observer has queued
    watch_pc        \* the request whose preprocessing runs, NoReq when none runs

watchVars == <<raw_path, trigger_file, status_file, proc_path, fetching, created,
               watch_pc>>

vars == <<segVars, matchVars, clientVars, dlVars, pairVars, batchVars, odataVars, watchVars>>

\* what the actions of one subsystem leave alone
notSeg == <<matchVars, clientVars, dlVars, pairVars, batchVars, odataVars, watchVars>>
notMatch == <<segVars, clientVars, dlVars, pairVars, batchVars, odataVars, watchVars>>
notClient == <<segVars, matchVars, dlVars, pairVars, batchVars, odataVars, watchVars>>
notDl == <<segVars, matchVars, clientVars, pairVars, batchVars, odataVars, watchVars>>
notPair == <<segVars, matchVars, clientVars, dlVars, batchVars, odataVars, watchVars>>
notBatch == <<segVars, matchVars, clientVars, dlVars, pairVars, odataVars, watchVars>>
notOdata == <<segVars, matchVars, clientVars, dlVars, pairVars, batchVars, watchVars>>
notWatch == <<segVars, matchVars, clientVars, dlVars, pairVars, batchVars, odataVars>>

\* Python's None, for the optional timestamps and identifiers (all others are >= 0)
None == -1

(***************************************************************************)
(* Bounds of the model.                                                    *)
(***************************************************************************)
MaxRows == 4
\* the most features one catalog response holds
MaxFeatures == 2
\* the most tokens the token endpoint issues
MaxTokens == 2
\* the clock ticks this many times at most
MaxTicks == 3
MaxClockSec == 20
\* the most chunks one download response streams
MaxChunks == 2
\* the most rows s1_pairs holds
MaxPairs == 2
\* the most events of one grid cell a batch script loops over
MaxUnits == 3

(***************************************************************************)
(* Event segmentation.                                                     *)
(* Timestamps are in seconds.  A reading is a row of gsmap_points that     *)
(* passed the query's filter (gauge_mm_h >= threshold) and, in             *)
(* build_gsmap_events.py, the guards of lines 420-427.                     *)
(***************************************************************************)

\* `dt_hours <= 1.01` with dt_hours = total_seconds() / 3600.0
BuildToleranceSec == 3636
\* `timedelta(hours=1.1)`
GridToleranceSec == 3960

GridIds == {1, 2}
Gauges == {1, 2}
\* gaps between consecutive readings of a cell: one hour, the two tolerances
\* (the second is beyond the first), two hours
Gaps == {3600, BuildToleranceSec, GridToleranceSec, 7200}
FirstTs == {0}

Max2(a, b) == IF a >= b THEN a ELSE b

\* ---- build_gsmap_events.py ----
\* the session whose query is iterated with yield_per (lines 362-395) and
\* the session that is committed in the loop (line 486): both are the `db`
\* of line 332
StreamSession == "db"

CommitSession == "db"

BuildSegInit ==
    [cur_grid_id |-> None, cur_start_ts |-> None, cur_end_ts |-> None,
     cur_hit_hours |-> 0, cur_sum_gauge |-> 0, cur_max_gauge |-> 0,
     events |-> <<>>, total_events |-> 0, inserted_events |-> 0,
     batch_events |-> 0, commits |-> 0]

\* _flush_event: the number of rows added (0 or 1)
FlushAdded(hit_hours, dry) ==
    IF hit_hours <= 0 THEN 0 ELSE IF dry THEN 0 ELSE 1

CurEvent(s) ==
    [grid_id |-> s.cur_grid_id, start_ts |-> s.cur_start_ts, end_ts |-> s.cur_end_ts,
     hit_hours |-> s.cur_hit_hours, sum_gauge |-> s.cur_sum_gauge,
     max_gauge |-> s.cur_max_gauge]

StartEvent(s, row) ==
    [s EXCEPT !.cur_grid_id = row.grid_id, !.cur_start_ts = row.ts_utc,
              !.cur_end_ts = row.ts_utc, !.cur_hit_hours = 1,
              !.cur_sum_gauge = row.gauge_mm_h, !.cur_max_gauge = row.gauge_mm_h]

\* BuildSameEvent without the test of the grid cell
BuildSameEventAnyGrid(s, row) ==
    /\ s.cur_end_ts # None
    /\ row.ts_utc - s.cur_end_ts <= BuildToleranceSec

\* BuildSameEvent with `<` for `<=`
BuildSameEventStrict(s, row) ==
    /\ row.grid_id = s.cur_grid_id
    /\ s.cur_end_ts # None
    /\ row.ts_utc - s.cur_end_ts < BuildToleranceSec

\* the test of line 453: same grid and not more than 1.01 h after the open event's end
BuildSameEvent(s, row) ==
    /\ row.grid_id = s.cur_grid_id
    /\ s.cur_end_ts # None
    /\ row.ts_utc - s.cur_end_ts <= BuildToleranceSec

BuildExtend(s, row) ==
    [s EXCEPT !.cur_end_ts = row.ts_utc,
              !.cur_hit_hours = @ + 1,
              !.cur_sum_gauge = @ + row.gauge_mm_h,
              !.cur_max_gauge = IF row.gauge_mm_h > @ THEN row.gauge_mm_h ELSE @]

\* lines 464-487: flush the open event, count it, commit per batch
BuildFlush(s, dry, bsize) ==
    IF s.cur_start_ts # None /\ s.cur_end_ts # None
    THEN LET added == FlushAdded(s.cur_hit_hours, dry)
             batch == s.batch_events + added
             commit == ~dry /\ batch >= bsize
         IN [s EXCEPT !.events = IF s.cur_hit_hours <= 0 THEN @ ELSE Append(@, CurEvent(s)),
                      !.total_events = @ + 1,
                      !.inserted_events = @ + added,
                      !.batch_events = IF commit THEN 0 ELSE batch,
                      !.commits = IF commit THEN @ + 1 ELSE @]
    ELSE s

\* one iteration of `for row in rows` (lines 416-500)
BuildRow(s, row, dry, bsize) ==
    IF s.cur_grid_id = None
    THEN StartEvent(s, row)
    ELSE IF BuildSameEvent(s, row)
         THEN BuildExtend(s, row)
         ELSE StartEvent(BuildFlush(s, dry, bsize), row)

\* lines 514-536: the flush after the loop and the last commit
BuildFinish(s, dry) ==
    IF s.cur_grid_id # None /\ s.cur_start_ts # None /\ s.cur_end_ts # None
    THEN LET added == FlushAdded(s.cur_hit_hours, dry)
             batch == s.batch_events + added
             commit == ~dry /\ batch > 0
         IN [s EXCEPT !.events = IF s.cur_hit_hours <= 0 THEN @ ELSE Append(@, CurEvent(s)),
                      !.total_events = @ + 1,
                      !.inserted_events = @ + added,
                      !.batch_events = batch,
                      !.commits = IF commit THEN @ + 1 ELSE @]
    ELSE [s EXCEPT !.commits = IF ~dry /\ s.batch_events > 0 THEN @ + 1 ELSE @]

\* ---- download_s1_events_by_grid.py (and the same loop of api/grids.py) ----
\* before the first point there is no open event
NoEvt == [start |-> None, end |-> None, max_rain |-> None, count |-> 0]

GridSegInit == [current_evt |-> NoEvt, events |-> <<>>]

NewEvt(p) == [start |-> p.ts_utc, end |-> p.ts_utc, max_rain |-> p.gauge_mm_h, count |-> 1]

\* the test of line 97
GridSameEvent(evt, p) == p.ts_utc - evt.end <= GridToleranceSec

\* lines 90-103: the first point seeds the open event, the others extend or close it
GridPoint(s, p) ==
    IF s.current_evt = NoEvt
    THEN [s EXCEPT !.current_evt = NewEvt(p)]
    ELSE IF GridSameEvent(s.current_evt, p)
         THEN [s EXCEPT !.current_evt =
                   [@ EXCEPT !.end = p.ts_utc,
                             !.max_rain = Max2(@, p.gauge_mm_h),
                             !.count = @ + 1]]
         ELSE [s EXCEPT !.events = Append(@, s.current_evt),
                        !.current_evt = NewEvt(p)]

\* GridFinish where the open event is not appended after the loop
GridFinishNoAppend(s) == s

\* line 104 (and the early return of line 80 when there is no point)
GridFinish(s) ==
    IF s.current_evt = NoEvt THEN s
    ELSE [s EXCEPT !.events = Append(@, s.current_evt)]

\* ---- the readings the query can deliver next ----
\* build_gsmap_events.py orders by (grid_id, ts_utc); download_s1_events_by_grid.py
\* filters one grid_id and orders by ts_utc.
NextRows ==
    IF rows = <<>>
    THEN {[grid_id |-> g, ts_utc |-> t, gauge_mm_h |-> v] :
              g \in (IF script = "build_gsmap_events" THEN GridIds ELSE {1}),
              t \in FirstTs, v \in Gauges}
    ELSE LET last == rows[Len(rows)]
         IN {[grid_id |-> last.grid_id, ts_utc |-> last.ts_utc + d, gauge_mm_h |-> v] :
                 d \in Gaps, v \in Gauges}
            \cup
            (IF script = "build_gsmap_events"
             THEN {[grid_id |-> g, ts_utc |-> t, gauge_mm_h |-> v] :
                       g \in {h \in GridIds : h > last.grid_id}, t \in FirstTs, v \in Gauges}
             ELSE {})

SegInit ==
    /\ script \in {"build_gsmap_events", "download_s1_events_by_grid"}
    /\ dry_run \in (IF script = "build_gsmap_events" THEN BOOLEAN ELSE {FALSE})
    /\ batch_size \in (IF script = "build_gsmap_events" /\ ~dry_run THEN {1, 2} ELSE {1})
    /\ rows = <<>>
    /\ seg = IF script = "build_gsmap_events" THEN BuildSegInit ELSE GridSegInit
    /\ segDone = FALSE

SegIdle ==
    /\ script = "none"
    /\ dry_run = FALSE
    /\ batch_size = 1
    /\ rows = <<>>
    /\ seg = GridSegInit
    /\ segDone = FALSE

BuildEventsRow ==
    /\ script = "build_gsmap_events"
    /\ ~segDone
    /\ Len(rows) < MaxRows
    /\ \E row \in NextRows :
          /\ rows' = Append(rows, row)
          /\ seg' = BuildRow(seg, row, dry_run, batch_size)
    /\ UNCHANGED <<script, dry_run, batch_size, segDone>>
    /\ UNCHANGED notSeg

BuildEventsFinish ==
    /\ script = "build_gsmap_events"
    /\ ~segDone
    /\ seg' = BuildFinish(seg, dry_run)
    /\ segDone' = TRUE
    /\ UNCHANGED <<script, dry_run, batch_size, rows>>
    /\ UNCHANGED notSeg

GridEventsPoint ==
    /\ script = "download_s1_events_by_grid"
    /\ ~segDone
    /\ Len(rows) < MaxRows
    /\ \E p \in NextRows :
          /\ rows' = Append(rows, p)
          /\ seg' = GridPoint(seg, p)
    /\ UNCHANGED <<script, dry_run, batch_size, segDone>>
    /\ UNCHANGED notSeg

GridEventsFinish ==
    /\ script = "download_s1_events_by_grid"
    /\ ~segDone
    /\ seg' = GridFinish(seg)
    /\ segDone' = TRUE
    /\ UNCHANGED <<script, dry_run, batch_size, rows>>
    /\ UNCHANGED notSeg

SegNext ==
    \/ BuildEventsRow
    \/ BuildEventsFinish
    \/ GridEventsPoint
    \/ GridEventsFinish

(***************************************************************************)
(* Scene lookup of S1CDSEClient.  Times are in hours.  Strings are         *)
(* sequences of characters, <<>> standing for a missing (None or empty)    *)
(* string; a missing number is None.                                       *)
(***************************************************************************)
Str_s1a == <<"s", "1", "a">>
Str_S1A == <<"S", "-", "1", "A">>
Str_s1b == <<"s", "1", "b">>
Str_asc == <<"a", "s", "c">>
Str_ASC == <<"A", "S", "C">>
Str_desc == <<"d", "e", "s", "c">>

LowerChar(c) ==
    CASE c = "S" -> "s" [] c = "A" -> "a" [] c = "C" -> "c" [] c = "B" -> "b"
      [] c = "D" -> "d" [] c = "E" -> "e" [] OTHER -> c

\* str.lower()
Lower(str) == [i \in 1..Len(str) |-> LowerChar(str[i])]

\* str.replace("-", "")
RECURSIVE DropDash(_)
DropDash(str) ==
    IF str = <<>> THEN <<>>
    ELSE IF Head(str) = "-" THEN DropDash(Tail(str))
         ELSE <<Head(str)>> \o DropDash(Tail(str))

\* `a in b` for strings
IsSubstr(a, b) ==
    \E i \in 0..(Len(b) - Len(a)) : SubSeq(b, i + 1, i + Len(a)) = a

\* the lookups use one reference instant; the catalog's items lie around it
RefTimes == {100000}

\* The STAC features a response can hold (their properties after the key
\* lookups of _features_to_scenes but before the choice among the datetime keys).
Features ==
    LET T == 100000
    IN {[id |-> 1, datetime |-> T - 2, start_datetime |-> None, end_datetime |-> None,
         platform |-> Str_s1a, orbit |-> Str_asc, rel |-> 1],
        [id |-> 2, datetime |-> T - 1, start_datetime |-> T - 5, end_datetime |-> None,
         platform |-> Str_S1A, orbit |-> Str_ASC, rel |-> 1],
        [id |-> 3, datetime |-> T, start_datetime |-> None, end_datetime |-> None,
         platform |-> Str_s1a, orbit |-> Str_asc, rel |-> 1],
        [id |-> 4, datetime |-> None, start_datetime |-> T + 1, end_datetime |-> T + 2,
         platform |-> Str_s1b, orbit |-> Str_desc, rel |-> 2],
        [id |-> 5, datetime |-> None, start_datetime |-> None, end_datetime |-> None,
         platform |-> Str_s1a, orbit |-> Str_asc, rel |-> 1],
        [id |-> 6, datetime |-> T - 1, start_datetime |-> None, end_datetime |-> None,
         platform |-> <<>>, orbit |-> Str_asc, rel |-> 2]}

\* what `resp.json()["features"]` can be: features in any order, none twice; the
\* empty list also stands for the {} that _stac_search returns on failure
RECURSIVE SeqsOf(_, _)
SeqsOf(S, n) ==
    IF n = 0 THEN {<<>>}
    ELSE LET shorter == SeqsOf(S, n - 1)
         IN shorter \cup
            {Append(q, x) : q \in {r \in shorter : Len(r) = n - 1}, x \in S}

Distinct(q) == \A i, j \in 1..Len(q) : i # j => q[i] # q[j]

Responses == {q \in SeqsOf(Features, MaxFeatures) : Distinct(q)}

NoScene ==
    [stac_id |-> None, acquisition_time |-> None, platform |-> <<>>,
     orbit_direction |-> <<>>, relative_orbit |-> None]

\* `a or b or c` over optional numbers
Or3(a, b, c) == IF a # None THEN a ELSE IF b # None THEN b ELSE c

\* the S1Scene of a feature (lines 158-169)
SceneOf(feat) ==
    [stac_id |-> feat.id,
     acquisition_time |-> Or3(feat.datetime, feat.start_datetime, feat.end_datetime),
     platform |-> feat.platform, orbit_direction |-> feat.orbit,
     relative_orbit |-> feat.rel]

\* scenes.sort(key=acquisition_time) with no sort at all
SortUnsorted(q) == q

\* list.sort(key=lambda s: s.acquisition_time): stable insertion by time
RECURSIVE InsertByTime(_, _)
InsertByTime(sorted, sc) ==
    IF sorted = <<>> THEN <<sc>>
    ELSE IF Head(sorted).acquisition_time <= sc.acquisition_time
         THEN <<Head(sorted)>> \o InsertByTime(Tail(sorted), sc)
         ELSE <<sc>> \o sorted

RECURSIVE SortFrom(_, _)
SortFrom(sorted, q) ==
    IF q = <<>> THEN sorted ELSE SortFrom(InsertByTime(sorted, Head(q)), Tail(q))

SortByTime(q) == SortFrom(<<>>, q)

HasDatetime(feat) == Or3(feat.datetime, feat.start_datetime, feat.end_datetime) # None

\* lines 146-169: features without a datetime are skipped, the others become scenes
RECURSIVE ScenesOf(_)
ScenesOf(feats) ==
    IF feats = <<>> THEN <<>>
    ELSE IF HasDatetime(Head(feats))
         THEN <<SceneOf(Head(feats))>> \o ScenesOf(Tail(feats))
         ELSE ScenesOf(Tail(feats))

\* _features_to_scenes (lines 144-171)
FeaturesToScenes(feats) == SortByTime(ScenesOf(feats))

\* the client-side checks of search_grd_point_time (lines 209-230)
PlatformOk(sc, platform) ==
    platform # <<>> =>
        LET p_req == DropDash(Lower(platform))
            p_act == DropDash(Lower(sc.platform))
        IN IsSubstr(p_req, p_act) \/ IsSubstr(p_act, p_req)

OrbitOk(sc, orbit_direction) ==
    orbit_direction # <<>> => Lower(orbit_direction) = Lower(sc.orbit_direction)

RelOrbitOk(sc, relative_orbit) ==
    relative_orbit # None => sc.relative_orbit = relative_orbit

\* the loop of lines 209-230 over the scenes scs
RECURSIVE FilterScenes(_, _)
FilterScenes(scs, w) ==
    IF scs = <<>> THEN <<>>
    ELSE IF /\ PlatformOk(Head(scs), w.platform)
            /\ OrbitOk(Head(scs), w.orbit_direction)
            /\ RelOrbitOk(Head(scs), w.relative_orbit)
         THEN <<Head(scs)>> \o FilterScenes(Tail(scs), w)
         ELSE FilterScenes(Tail(scs), w)

\* search_grd_point_time (lines 173-232) on the response feats
SearchGrdPointTime(feats, w) == FilterScenes(FeaturesToScenes(feats), w)

NoConstraint == [platform |-> <<>>, orbit_direction |-> <<>>, relative_orbit |-> None]

Constraints ==
    {NoConstraint,
     [platform |-> Str_s1a, orbit_direction |-> Str_asc, relative_orbit |-> 1],
     [platform |-> Str_s1a, orbit_direction |-> <<>>, relative_orbit |-> None]}

\* find_after_scene with the test of line 239 left out
FirstOfAny(scs, event_end) == IF scs = <<>> THEN NoScene ELSE scs[1]

\* the loop of find_after_scene (lines 238-241)
FirstAtOrAfter(scs, event_end) ==
    LET ok == {i \in 1..Len(scs) : scs[i].acquisition_time >= event_end}
    IN IF ok = {} THEN NoScene
       ELSE scs[CHOOSE i \in ok : \A j \in ok : i <= j]

\* the first candidate instead of the latest one
FirstBefore(scs, ref) ==
    LET cand == {i \in 1..Len(scs) : scs[i].acquisition_time < ref}
    IN IF cand = {} THEN NoScene
       ELSE scs[CHOOSE i \in cand : \A j \in cand : i <= j]

\* lines 273-277: max(before_candidates, key=acquisition_time); max keeps the
\* first of several maxima
LatestBefore(scs, ref) ==
    LET cand == {i \in 1..Len(scs) : scs[i].acquisition_time < ref}
    IN IF cand = {} THEN NoScene
       ELSE scs[CHOOSE i \in cand :
                   \A j \in cand :
                       \/ scs[j].acquisition_time < scs[i].acquisition_time
                       \/ (scs[j].acquisition_time = scs[i].acquisition_time /\ i <= j)]

\* lookback_steps with the 5-year tier dropped
LookbackStepsShort == <<30, 90, 365, 3650>>

\* line 258: lookback_steps, in days
LookbackSteps == <<30, 90, 365, 365 * 5, 365 * 10>>

AfterHours == {12, 24}

MatchIdle ==
    /\ mPc = "idle"
    /\ event_end_utc = None
    /\ after_hours = None
    /\ ref_time_utc = None
    /\ want = NoConstraint
    /\ searches = <<>>
    /\ scenes = <<>>
    /\ tierBest = <<>>
    /\ found = NoScene

\* the latest acquisition time before ref among the scenes scs (None when none)
BestBefore(scs, ref) ==
    LET ts == {scs[i].acquisition_time : i \in 1..Len(scs)}
        before == {t \in ts : t < ref}
    IN IF before = {} THEN None ELSE CHOOSE t \in before : \A u \in before : u <= t

\* find_after_scene (lines 234-241): one search of [event_end, event_end + after_hours]
FindAfterScene ==
    /\ mPc = "idle"
    /\ \E e \in RefTimes, h \in AfterHours, feats \in Responses :
          LET scs == SearchGrdPointTime(feats, NoConstraint)
          IN /\ event_end_utc' = e
             /\ after_hours' = h
             /\ searches' = Append(searches,
                    [days_back |-> None, start |-> e, end |-> e + h, limit |-> 100,
                     want |-> NoConstraint])
             /\ scenes' = scs
             /\ found' = FirstAtOrAfter(scs, e)
    /\ mPc' = "after_done"
    /\ UNCHANGED <<ref_time_utc, want, tierBest>>
    /\ UNCHANGED notMatch

\* find_before_scene_unbounded is called (lines 243-258)
FindBeforeStart ==
    /\ mPc = "idle"
    /\ \E r \in RefTimes, w \in Constraints :
          /\ ref_time_utc' = r
          /\ want' = w
    /\ mPc' = "before"
    /\ UNCHANGED <<event_end_utc, after_hours, searches, scenes, tierBest, found>>
    /\ UNCHANGED notMatch

\* one iteration of `for days_back in lookback_steps` (lines 260-277)
FindBeforeTier ==
    /\ mPc = "before"
    /\ Len(searches) < Len(LookbackSteps)
    /\ \E feats \in Responses :
          LET days_back == LookbackSteps[Len(searches) + 1]
              scs == SearchGrdPointTime(feats, want)
              best == LatestBefore(scs, ref_time_utc)
          IN /\ searches' = Append(searches,
                    [days_back |-> days_back, start |-> ref_time_utc - 24 * days_back,
                     end |-> ref_time_utc, limit |-> 200, want |-> want])
             /\ scenes' = scs
             /\ tierBest' = Append(tierBest, BestBefore(scs, ref_time_utc))
             /\ found' = best
             /\ mPc' = IF best # NoScene THEN "before_done" ELSE "before"
    /\ UNCHANGED <<event_end_utc, after_hours, ref_time_utc, want>>
    /\ UNCHANGED notMatch

\* line 282: every tier was searched without a candidate
FindBeforeNone ==
    /\ mPc = "before"
    /\ Len(searches) = Len(LookbackSteps)
    /\ found' = NoScene
    /\ mPc' = "before_done"
    /\ UNCHANGED <<event_end_utc, after_hours, ref_time_utc, want, searches, scenes,
                   tierBest>>
    /\ UNCHANGED notMatch

MatchNext ==
    \/ FindAfterScene
    \/ FindBeforeStart
    \/ FindBeforeTier
    \/ FindBeforeNone


(***************************************************************************)
(* The token cache of S1CDSEClient and the calls that use it.  Times are   *)
(* in milliseconds.  A thread is at one of                                 *)
(*   "idle"   no call running                                              *)
(*   "check"  _get_token entered (line 49)                                 *)
(*   "post"   about to send the token request (line 63)                    *)
(*   "wait"   token request sent, response not yet read (lines 63-66)      *)
(*   "store"  self._access_token assigned, self._token_expire_at not yet   *)
(*            (between lines 68 and 69)                                    *)
(*   "ret"    _get_token has returned th[t].tok to its caller              *)
(*   "loop"   at the head of the retry loop of _stac_search (line 89)      *)
(***************************************************************************)
\* datetime.min: before every instant of the clock
DatetimeMin == -1
\* `expires_in - 60` (line 69), in milliseconds
SafetyMarginMs == 60000
\* `j.get("expires_in", 3600)` (line 67), in seconds
DefaultExpiresIn == 3600

\* the expires_in (seconds) of a token response; None: the field is missing and
\* the token lives DefaultExpiresIn
ExpiresIns == {90, None}
TickMs == {20000}

Lifetime(e) == IF e = None THEN DefaultExpiresIn ELSE e

IdleThread ==
    [pc |-> "idle", op |-> "none", call_now |-> None, resp |-> [ok |-> FALSE, id |-> None, expires_in |-> None],
     tok |-> None, hit |-> FALSE,
     attempt |-> 0, status |-> 0, retry_after |-> <<>>, jitter |-> 0, wait_time |-> 0,
     \* the requests of this call: to the token endpoint, to the STAC search with
     \* and without an Authorization header, to the OData product lookup
     posts |-> 0, gets |-> 0, anon_gets |-> 0, odata |-> 0,
     result |-> "none"]

ClientInit(threads) ==
    /\ creds \in BOOLEAN
    /\ now = 0
    /\ access_token = None
    /\ token_expire_at = DatetimeMin
    /\ issued = <<>>
    /\ th = [t \in threads |-> IdleThread]

ClientIdle ==
    /\ creds = FALSE
    /\ now = 0
    /\ access_token = None
    /\ token_expire_at = DatetimeMin
    /\ issued = <<>>
    /\ th = <<>>

\* line 50: `self._access_token and now < self._token_expire_at`
CacheValid(tok, expire_at, t) == tok # None /\ t < expire_at

\* line 69: now + timedelta(seconds=expires_in - 60)
ExpireAt(call_now, expires_in) ==
    call_now + 1000 * Lifetime(expires_in) - SafetyMarginMs

\* a thread calls download_product with a product identifier (lines 317-321)
CallDownload ==
    \E t \in DOMAIN th :
        /\ th[t].pc = "idle"
        /\ th' = [th EXCEPT ![t] = [IdleThread EXCEPT !.pc = "check", !.op = "download"]]
        /\ UNCHANGED <<creds, now, access_token, token_expire_at, issued>>
        /\ UNCHANGED notClient

\* _get_token, lines 49-54: read the clock, then the cache, then the credentials
TokenCheck ==
    \E t \in DOMAIN th :
        /\ th[t].pc = "check"
        /\ th' = [th EXCEPT
                    ![t].call_now = now,
                    ![t].pc = IF CacheValid(access_token, token_expire_at, now) \/ ~creds
                              THEN "ret" ELSE "post",
                    ![t].hit = CacheValid(access_token, token_expire_at, now),
                    ![t].tok = IF CacheValid(access_token, token_expire_at, now)
                               THEN access_token ELSE None]
        /\ UNCHANGED <<creds, now, access_token, token_expire_at, issued>>
        /\ UNCHANGED notClient

\* what the token endpoint answers: a rejection or failure, or a new token
TokenAnswers ==
    {[ok |-> FALSE, id |-> None, expires_in |-> None]}
    \cup (IF Len(issued) < MaxTokens
          THEN {[ok |-> TRUE, id |-> Len(issued) + 1, expires_in |-> e] : e \in ExpiresIns}
          ELSE {})

\* line 63: the token request is sent and the endpoint answers it
TokenPost ==
    \E t \in DOMAIN th :
        /\ th[t].pc = "post"
        /\ \E a \in TokenAnswers :
              /\ th' = [th EXCEPT ![t].pc = "wait", ![t].resp = a, ![t].posts = @ + 1]
              /\ issued' = IF a.ok
                           THEN Append(issued, [issued_at |-> now,
                                                lifetime |-> Lifetime(a.expires_in)])
                           ELSE issued
        /\ UNCHANGED <<creds, now, access_token, token_expire_at>>
        /\ UNCHANGED notClient

\* lines 64-68 and 71-73: the response is read; a token is assigned to
\* self._access_token, a failure makes _get_token return ""
TokenRecv ==
    \E t \in DOMAIN th :
        /\ th[t].pc = "wait"
        /\ th' = [th EXCEPT ![t].pc = IF th[t].resp.ok THEN "store" ELSE "ret",
                           ![t].tok = None, ![t].hit = FALSE]
        /\ access_token' = IF th[t].resp.ok THEN th[t].resp.id ELSE access_token
        /\ UNCHANGED <<creds, now, token_expire_at, issued>>
        /\ UNCHANGED notClient

\* lines 69-70: self._token_expire_at is assigned and the new token returned
TokenStoreExpire ==
    \E t \in DOMAIN th :
        /\ th[t].pc = "store"
        /\ token_expire_at' = ExpireAt(th[t].call_now, th[t].resp.expires_in)
        /\ th' = [th EXCEPT ![t].pc = "ret", ![t].tok = th[t].resp.id]
        /\ UNCHANGED <<creds, now, access_token, issued>>
        /\ UNCHANGED notClient

\* line 321 with the test left out
TokenNeverMissing(tok) == FALSE

\* line 321: `if not self._get_token()`
TokenMissing(tok) == tok = None

\* download_product, lines 321-327: without a token it returns None; with one it
\* asks the OData catalogue for the product's id
DownloadAfterToken ==
    \E t \in DOMAIN th :
        /\ th[t].pc = "ret"
        /\ th[t].op = "download"
        /\ th' = [th EXCEPT ![t] = [IdleThread EXCEPT
                      !.odata = IF TokenMissing(th[t].tok) THEN 0 ELSE 1,
                      !.result = IF TokenMissing(th[t].tok) THEN "None" ELSE "resolved"]]
        /\ UNCHANGED <<creds, now, access_token, token_expire_at, issued>>
        /\ UNCHANGED notClient

\* time passes
Tick ==
    /\ \E d \in TickMs :
          /\ now + d <= MaxTicks * d
          /\ now' = now + d
    /\ UNCHANGED <<creds, access_token, token_expire_at, issued, th>>
    /\ UNCHANGED notClient

AuthNext ==
    \/ CallDownload
    \/ TokenCheck
    \/ TokenPost
    \/ TokenRecv
    \/ TokenStoreExpire
    \/ DownloadAfterToken
    \/ Tick


(***************************************************************************)
(* _stac_search: the retry loop (lines 84-128).                            *)
(***************************************************************************)
\* max_retries (line 86)
MaxRetries == 10
\* base_wait (line 87), in milliseconds
BaseWaitMs == 2000
\* `random.random() * 3.0` (line 113), in milliseconds: values of [0, 3000)
Jitters == {0, 2999}

\* Retry-After header values (RFC 7231: delay-seconds or an HTTP-date); <<>> is a
\* missing or empty header
Hdr_0 == <<"0">>
Hdr_5 == <<"5">>
Hdr_12 == <<"1", "2">>
Hdr_date == <<"W", "e", "d">>
RetryAfters == {<<>>, Hdr_0, Hdr_5, Hdr_12, Hdr_date}

\* HTTP statuses of a search response; 0 stands for a request that failed
\* without a response (timeout, connection error)
Statuses == {200, 429, 500, 503, 404, 0}

DigitOf(c) ==
    CASE c = "0" -> 0 [] c = "1" -> 1 [] c = "2" -> 2 [] c = "3" -> 3 [] c = "4" -> 4
      [] c = "5" -> 5 [] c = "6" -> 6 [] c = "7" -> 7 [] c = "8" -> 8 [] c = "9" -> 9
      [] OTHER -> None

\* float(retry_after) succeeds
IsNumber(h) == h # <<>> /\ \A i \in 1..Len(h) : DigitOf(h[i]) # None

\* float(retry_after)
RECURSIVE NumberOf(_)
NumberOf(h) ==
    IF h = <<>> THEN 0 ELSE 10 * NumberOf(SubSeq(h, 1, Len(h) - 1)) + DigitOf(h[Len(h)])

RECURSIVE Pow2(_)
Pow2(n) == IF n = 0 THEN 1 ELSE 2 * Pow2(n - 1)

\* the wait without the one-second margin
WaitTimeNoMargin(h, attempt, jitter) ==
    IF h # <<>>
    THEN IF IsNumber(h) THEN 1000 * NumberOf(h)
         ELSE BaseWaitMs * Pow2(attempt)
    ELSE BaseWaitMs * Pow2(attempt) + jitter

\* lines 104-113: wait_time, in milliseconds
WaitTime(h, attempt, jitter) ==
    IF h # <<>>
    THEN IF IsNumber(h) THEN 1000 * NumberOf(h) + 1000
         ELSE BaseWaitMs * Pow2(attempt)
    ELSE BaseWaitMs * Pow2(attempt) + jitter

\* a client that retries on 5xx as well
RetriedWith5xx(status) == status = 429 \/ status >= 500

\* line 102: only a 429 response is retried
Retried(status) == status = 429

\* a thread calls _stac_search (from search_grd_point_time, line 206)
CallSearch ==
    \E t \in DOMAIN th :
        /\ th[t].pc = "idle"
        /\ th' = [th EXCEPT ![t] = [IdleThread EXCEPT !.pc = "loop", !.op = "search",
                                                      !.result = "pending"]]
        /\ UNCHANGED <<creds, now, access_token, token_expire_at, issued>>
        /\ UNCHANGED notClient

\* lines 89-93: the next attempt starts by building the headers (_auth_headers
\* calls _get_token)
StacAttempt ==
    \E t \in DOMAIN th :
        /\ th[t].pc = "loop"
        /\ th[t].attempt < MaxRetries
        /\ th' = [th EXCEPT ![t].pc = "check"]
        /\ UNCHANGED <<creds, now, access_token, token_expire_at, issued>>
        /\ UNCHANGED notClient

\* lines 127-128: the attempts are used up
StacGiveUp ==
    \E t \in DOMAIN th :
        /\ th[t].pc = "loop"
        /\ th[t].attempt >= MaxRetries
        /\ th' = [th EXCEPT ![t].pc = "idle", ![t].result = "empty"]
        /\ UNCHANGED <<creds, now, access_token, token_expire_at, issued>>
        /\ UNCHANGED notClient

\* lines 91-125: the request is sent with the headers of _auth_headers
\* (Authorization only with a token) and the response handled: 200 returns the
\* JSON, 429 sleeps and goes to the next attempt, everything else returns {}
StacGet ==
    \E t \in DOMAIN th :
        /\ th[t].pc = "ret"
        /\ th[t].op = "search"
        /\ \E st \in Statuses,
              h \in RetryAfters,
              j \in Jitters :
              \* the header and the jitter only matter for the branch that reads them
              /\ (st # 429 => h = <<>>)
              /\ ((st # 429 \/ h # <<>>) => j = 0)
              /\ now + (IF Retried(st) THEN WaitTime(h, th[t].attempt, j) ELSE 0) <= 1000 * MaxClockSec
              /\ LET w == IF Retried(st) THEN WaitTime(h, th[t].attempt, j) ELSE 0
                 IN /\ th' = [th EXCEPT
                               ![t].pc = IF Retried(st) THEN "loop" ELSE "idle",
                               \* the locals of the finished _get_token call
                               ![t].call_now = None,
                               ![t].resp = IdleThread.resp,
                               ![t].hit = FALSE,
                               ![t].posts = 0,
                               ![t].gets = @ + 1,
                               ![t].anon_gets = IF th[t].tok = None THEN @ + 1 ELSE @,
                               ![t].status = st,
                               ![t].retry_after = h,
                               ![t].jitter = j,
                               ![t].wait_time = w,
                               ![t].attempt = IF Retried(st) THEN @ + 1 ELSE @,
                               ![t].result = IF Retried(st) THEN "pending"
                                             ELSE IF st = 200 THEN "json" ELSE "empty"]
                    /\ now' = now + w
        /\ UNCHANGED <<creds, access_token, token_expire_at, issued>>
        /\ UNCHANGED notClient

StacNext ==
    \/ CallSearch
    \/ StacAttempt
    \/ StacGiveUp
    \/ StacGet
    \/ CallDownload
    \/ DownloadAfterToken
    \/ TokenCheck
    \/ TokenPost
    \/ TokenRecv
    \/ TokenStoreExpire


(***************************************************************************)
(* The download endpoints of app/api/grids.py and download_product.        *)
(* One product is followed; FastAPI runs the handlers and the background   *)
(* routines (plain `def`s) on a thread pool, so they interleave.           *)
(***************************************************************************)
Products == {1}
Routines == {1, 2}
DlGrid == 1

\* what the zipper endpoint answers: an error, or a stream of nchunks chunks
\* with a content-length header (total_size = nchunks) or without one
\* (total_size = 0, line 345)
DlResponses ==
    {[ok |-> FALSE, total_size |-> 0, nchunks |-> 0]}
        \cup {[ok |-> TRUE, total_size |-> IF len THEN n ELSE 0, nchunks |-> n] :
                 n \in 1..MaxChunks, len \in BOOLEAN}

\* how the token and the OData lookup of lines 321-327 end
Preparations == {"no_token", "no_uuid", "ok"}

IdleRoutine ==
    [pc |-> "idle", total_size |-> 0, nchunks |-> 0, downloaded |-> 0,
     linked |-> FALSE,     \* the file this routine writes is the one at save_path
     outcome |-> "none"]   \* how the download_product call of the routine ended

\* what download_product returns to run_download (lines 323, 327, 339, 357, 361,
\* 365)
Returned(outcome) ==
    IF outcome \in {"already", "downloaded"} THEN "save_path" ELSE "None"

DlInit ==
    /\ download_tasks = <<>>
    /\ cancellation_requests = {}
    /\ file \in {None, 0, MaxChunks}
    /\ triggers = {}
    /\ rt = [r \in Routines |-> IdleRoutine]
    /\ cancel_pc = "idle"

DlIdle ==
    /\ download_tasks = <<>>
    /\ cancellation_requests = {}
    /\ file = None
    /\ triggers = {}
    /\ rt = <<>>
    /\ cancel_pc = "idle"

\* `del download_tasks[product_id]`
WithoutTask(tasks, p) == [q \in DOMAIN tasks \ {p} |-> tasks[q]]

\* `download_tasks[product_id] = v`
WithTask(tasks, p, v) == [q \in DOMAIN tasks \cup {p} |-> IF q = p THEN v ELSE tasks[q]]

\* round((current / total) * 100.0, 1), in tenths of a percent (line 315-316)
Progress(current, total) == (2000 * current + total) \div (2 * total)

\* progress_cb (lines 311-317): the tasks map after the call
ProgressCbTasks(p, current, total) ==
    IF p \in cancellation_requests THEN download_tasks
    ELSE IF total > 0 THEN WithTask(download_tasks, p, Progress(current, total))
         ELSE download_tasks

\* progress_cb returns False
ProgressCbCancels(p) == p \in cancellation_requests

\* save_path.exists() and save_path.stat().st_size > 0 (line 335, line 297)
FileComplete(f) == f # None /\ f > 0

\* save_path.unlink() by one routine: every open handle loses the path
Unlinked == [r \in Routines |-> [rt[r] EXCEPT !.linked = FALSE]]

\* the end of a download_product call: its locals go, how it ended stays
Ended(outcome) == [IdleRoutine EXCEPT !.pc = "ret", !.outcome = outcome]

\* get_download_status, steps 3 and 4 (lines 290-301): the answer to a status
\* query in the state given; the checks of the preprocessing outputs (lines
\* 270-288) belong to the watcher and are left out
StatusOf(tasks, f, p) ==
    IF p \in DOMAIN tasks THEN [status |-> "downloading", progress |-> tasks[p]]
    ELSE IF FileComplete(f) THEN [status |-> "downloaded", progress |-> 1000]
         ELSE [status |-> "not_started", progress |-> 0]

\* POST /download/product (lines 245-256): clears the flag, enters the task and
\* queues run_download
DownloadSingleProduct ==
    \E p \in Products, r \in Routines :
        /\ rt[r].pc = "idle"
        \* the pool hands the routine to its first free worker
        /\ \A q \in Routines : rt[q].pc = "idle" => r <= q
        /\ cancellation_requests' = cancellation_requests \ {p}
        /\ download_tasks' = WithTask(download_tasks, p, 0)
        /\ rt' = [rt EXCEPT ![r] = [IdleRoutine EXCEPT !.pc = "queued"]]
        /\ UNCHANGED <<file, triggers, cancel_pc>>
        /\ UNCHANGED notDl

\* run_download starts (lines 303-320) and download_product runs up to the test
\* of the existing file (lines 317-339)
DownloadPrepare ==
    \E p \in Products, r \in Routines, prep \in Preparations :
        /\ rt[r].pc = "queued"
        /\ IF prep # "ok"
           THEN /\ rt' = [rt EXCEPT ![r] = Ended(prep)]
                /\ UNCHANGED download_tasks
           ELSE IF FileComplete(file)
                THEN /\ rt' = [rt EXCEPT ![r] = Ended("already")]
                     /\ download_tasks' = ProgressCbTasks(p, 100, 100)
                ELSE /\ rt' = [rt EXCEPT ![r].pc = "get"]
                     /\ UNCHANGED download_tasks
        /\ UNCHANGED <<cancellation_requests, file, triggers, cancel_pc>>
        /\ UNCHANGED notDl

\* lines 343-348: the request to the zipper endpoint; the file is opened for
\* writing when the response is good, and removed (lines 362-365) when it is not
DownloadGet ==
    \E r \in Routines, resp \in DlResponses :
        /\ rt[r].pc = "get"
        /\ IF resp.ok
           THEN /\ file' = 0
                /\ rt' = [rt EXCEPT ![r].pc = "stream",
                                    ![r].total_size = resp.total_size,
                                    ![r].nchunks = resp.nchunks,
                                    ![r].linked = TRUE]
           ELSE /\ file' = None
                /\ rt' = [Unlinked EXCEPT ![r] = Ended("failed")]
        /\ UNCHANGED <<download_tasks, cancellation_requests, triggers, cancel_pc>>
        /\ UNCHANGED notDl

\* lines 349-355: one chunk is written and, with a content-length, progress_cb
\* is called; its False raises InterruptedError (lines 358-361)
DownloadChunk ==
    \E p \in Products, r \in Routines :
        /\ rt[r].pc = "stream"
        /\ rt[r].downloaded < rt[r].nchunks
        /\ LET downloaded == rt[r].downloaded + 1
               written == IF rt[r].linked /\ file # None
                          THEN (IF file > downloaded THEN file ELSE downloaded)
                          ELSE file
           IN IF rt[r].total_size > 0 /\ ProgressCbCancels(p)
              THEN /\ file' = None
                   /\ rt' = [Unlinked EXCEPT ![r] = Ended("cancelled")]
                   /\ UNCHANGED download_tasks
              ELSE /\ file' = written
                   /\ rt' = [rt EXCEPT ![r].downloaded = downloaded]
                   /\ download_tasks' = ProgressCbTasks(p, downloaded, rt[r].total_size)
        /\ UNCHANGED <<cancellation_requests, triggers, cancel_pc>>
        /\ UNCHANGED notDl

\* the stream breaks (I/O or connection error): lines 362-365
DownloadBreaks ==
    \E r \in Routines :
        /\ rt[r].pc = "stream"
        /\ rt[r].downloaded < rt[r].nchunks
        /\ file' = None
        /\ rt' = [Unlinked EXCEPT ![r] = Ended("failed")]
        /\ UNCHANGED <<download_tasks, cancellation_requests, triggers, cancel_pc>>
        /\ UNCHANGED notDl

\* line 357: the stream is over, save_path is returned
DownloadComplete ==
    \E r \in Routines :
        /\ rt[r].pc = "stream"
        /\ rt[r].downloaded = rt[r].nchunks
        /\ rt' = [rt EXCEPT ![r] = Ended("downloaded")]
        /\ UNCHANGED <<download_tasks, cancellation_requests, file, triggers, cancel_pc>>
        /\ UNCHANGED notDl

\* lines 322-326: with a saved path the trigger file is created
RunDownloadTrigger ==
    \E p \in Products, r \in Routines :
        /\ rt[r].pc = "ret"
        /\ triggers' = IF Returned(rt[r].outcome) = "save_path"
                       THEN triggers \cup {<<DlGrid, p>>} ELSE triggers
        /\ rt' = [rt EXCEPT ![r].pc = "fin"]
        /\ UNCHANGED <<download_tasks, cancellation_requests, file, cancel_pc>>
        /\ UNCHANGED notDl

\* lines 329-330: the task entry is deleted
RunDownloadDelTask ==
    \E p \in Products, r \in Routines :
        /\ rt[r].pc = "fin"
        /\ download_tasks' = WithoutTask(download_tasks, p)
        /\ rt' = [rt EXCEPT ![r].pc = "fin2"]
        /\ UNCHANGED <<cancellation_requests, file, triggers, cancel_pc>>
        /\ UNCHANGED notDl

\* lines 331-332: the cancellation flag is removed and run_download exits
RunDownloadDelFlag ==
    \E p \in Products, r \in Routines :
        /\ rt[r].pc = "fin2"
        /\ cancellation_requests' = cancellation_requests \ {p}
        /\ rt' = [rt EXCEPT ![r].pc = "idle"]
        /\ UNCHANGED <<download_tasks, file, triggers, cancel_pc>>
        /\ UNCHANGED notDl

\* POST /download/cancel, line 260: the test of the task map; without the task
\* the answer is "Not downloading" (line 263)
CancelDownloadCheck ==
    \E p \in Products :
        /\ cancel_pc = "idle"
        /\ cancel_pc' = IF p \in DOMAIN download_tasks THEN "add" ELSE "idle"
        /\ UNCHANGED <<download_tasks, cancellation_requests, file, triggers, rt>>
        /\ UNCHANGED notDl

\* POST /download/cancel, lines 261-262: the flag is set
CancelDownloadAdd ==
    \E p \in Products :
        /\ cancel_pc = "add"
        /\ cancellation_requests' = cancellation_requests \cup {p}
        /\ cancel_pc' = "idle"
        /\ UNCHANGED <<download_tasks, file, triggers, rt>>
        /\ UNCHANGED notDl

DlNext ==
    \/ DownloadSingleProduct
    \/ DownloadPrepare
    \/ DownloadGet
    \/ DownloadChunk
    \/ DownloadBreaks
    \/ DownloadComplete
    \/ RunDownloadTrigger
    \/ RunDownloadDelTask
    \/ RunDownloadDelFlag
    \/ CancelDownloadCheck
    \/ CancelDownloadAdd

(***************************************************************************)
(* The orchestrators that look up a pair of scenes for a rain event and    *)
(* store it in s1_pairs: the /search/satellite handler of app/api/grids.py,*)
(* download_s1_events_by_grid.py, build_s1_pairs_from_events_cdse.py and   *)
(* search_s1_nationwide.py.  One grid cell with its rain events is         *)
(* followed.  What the catalog answers for an event (the results of        *)
(* find_after_scene and find_before_scene_unbounded) is an input of each   *)
(* step and may differ from one run to the next.  Times are in seconds.    *)
(* Commits succeed.                                                        *)
(***************************************************************************)
PairGrid == 1

\* the rain events of the cell, by event_start_ts_utc (in hours)
PairEvents == {0, 1}

\* event_end_ts_utc of an event
EventEnd(ev) == 36000 + 3600 * ev

\* --trigger-hours of search_s1_nationwide.py (default 2.0)
TriggerSeconds == 7200

\* what find_after_scene can return: a scene not earlier than the end of the
\* event, with the delay between the two, or None
NoAfter == [scene_id |-> None, delay |-> None]

\* the scenes of the catalog over the cell: 1 and 2 are acquired around the
\* events, 8 and 9 long before them
PairScenes == {1, 2}

EarlierScenes == {8, 9}

AcquisitionTime(scene) ==
    IF scene = 1 THEN 39000
    ELSE IF scene = 2 THEN 46800
    ELSE IF scene = 8 THEN 7200
    ELSE 3600

\* platform, orbit direction and relative orbit of a scene, as one value:
\* scene 8 was acquired from another track than the others
TrackOf(scene) == IF scene = 8 THEN 2 ELSE 1

\* `after.acquisition_time - event_end` of lines 101
\* (search_s1_nationwide.py), 131 (download_s1_events_by_grid.py), 205
\* (grids.py) and 416 (build_s1_pairs_from_events_cdse.py)
DelayOf(ev, scene) == AcquisitionTime(scene) - EventEnd(ev)

\* `round(delay_sec / 3600.0, 2)` of grids.py, line 206, as seconds again
\* (no delay of the model lies halfway between two hundredths of an hour)
RoundedDelay(delay_sec) == 36 * ((100 * delay_sec + 1800) \div 3600)

\* find_after_scene under one mutation: any scene of the search window
AfterScenesUnfiltered(ev) ==
    {[scene_id |-> scene, delay |-> DelayOf(ev, scene)] : scene \in PairScenes}

\* find_after_scene, lines 238-240: a scene not earlier than the event's end
AfterScenes(ev) ==
    {[scene_id |-> scene, delay |-> DelayOf(ev, scene)] :
        scene \in {x \in PairScenes : AcquisitionTime(x) >= EventEnd(ev)}}

AfterAnswers(ev) == AfterScenes(ev) \cup {NoAfter}

\* what find_before_scene_unbounded can return: the latest earlier scene of
\* the first tier that has one, or None.  Called with the after scene's
\* platform, orbit direction and relative orbit (constrained) it is a scene
\* of that track; called without them it is a scene of any track.
BeforeAnswers(constrained) ==
    {scene \in EarlierScenes : ~constrained \/ TrackOf(scene) = 1} \cup {None}

\* safe_find_before_scene of build_s1_pairs_from_events_cdse.py: its call
\* passes mission_start_utc, which find_before_scene_unbounded does not
\* take; the TypeError is caught by the handler of lines 297-305, which
\* returns None
SafeFindBeforeScene == None

\* a row of s1_pairs
S1Pair(ev, after, before, source) ==
    [grid_id |-> PairGrid, event_start_ts_utc |-> ev,
     after_scene_id |-> after.scene_id, before_scene_id |-> before,
     delay |-> after.delay, source |-> source]

NoPair == [grid_id |-> None, event_start_ts_utc |-> None, after_scene_id |-> None,
           before_scene_id |-> None, delay |-> None, source |-> "none"]

\* the record of the latest step: which orchestrator ran, on which event
\* (None for a whole cell), what the catalog answered, whether the step came
\* to decide on a row (no dry run, no early answer from storage), whether it
\* added a row and, for the nationwide search, the catalog's answers per
\* event, the pairs found and the pairs handed on to _bulk_save
LastOf(orch, ev, after, before, decided, added) ==
    [orch |-> orch, ev |-> ev, after |-> after, before |-> before,
     decided |-> decided, added |-> added, answers |-> <<>>, found_pairs |-> {},
     handed |-> {}]

PairInit ==
    /\ s1_pairs = {}
    /\ lastRun = LastOf("none", None, NoAfter, None, FALSE, FALSE)

PairIdle ==
    /\ s1_pairs = {}
    /\ lastRun = <<>>

\* the rows the query of the handler matches (grid_id and event_start_ts_utc)
WebExisting(ev) ==
    {p \in s1_pairs : p.grid_id = PairGrid /\ p.event_start_ts_utc = ev}

\* the handler answers without a row when either scene is missing
WebSkips(after, before) == after = NoAfter \/ before = None

\* GET /search/satellite
SearchSatelliteForEvent ==
    \E ev \in PairEvents, force \in BOOLEAN, before \in BeforeAnswers(TRUE) :
      \E after \in AfterAnswers(ev), existing \in WebExisting(ev) \cup {NoPair} :
        \* `.first()`: any of the matching rows, None when there is none
        /\ (existing = NoPair) = (WebExisting(ev) = {})
        /\ IF existing # NoPair /\ ~force
           THEN /\ UNCHANGED s1_pairs
                /\ lastRun' = LastOf("web", ev, NoAfter, None, FALSE, FALSE)
           ELSE LET kept == s1_pairs \ {existing}
                    pair == S1Pair(ev, [after EXCEPT !.delay = RoundedDelay(after.delay)],
                                   before, "cdse_web_search")
                IN  IF WebSkips(after, before)
                    THEN /\ s1_pairs' = kept
                         /\ lastRun' = LastOf("web", ev, after,
                                           IF after = NoAfter THEN None ELSE before,
                                           TRUE, FALSE)
                    ELSE /\ Cardinality(kept) < MaxPairs
                         /\ s1_pairs' = kept \cup {pair}
                         /\ lastRun' = LastOf("web", ev, after, before, TRUE, TRUE)
        /\ UNCHANGED notPair

\* the rows the query of download_s1_events_by_grid.py matches
GridExisting(ev, after) ==
    {p \in s1_pairs : /\ p.grid_id = PairGrid
                      /\ p.event_start_ts_utc = ev
                      /\ p.after_scene_id = after.scene_id}

\* the `continue`s of lines 118-125
GridSkips(after, before) == after = NoAfter \/ before = None

\* one round of the event loop of download_s1_events_by_grid.py
DownloadS1EventsByGrid ==
    \E ev \in PairEvents, dry \in BOOLEAN, before \in BeforeAnswers(FALSE) :
      \E after \in AfterAnswers(ev) :
        LET b == IF after = NoAfter THEN None ELSE before
            pair == S1Pair(ev, after, before, "cdse_dynamic")
        IN  /\ IF GridSkips(after, before) \/ dry
               THEN /\ UNCHANGED s1_pairs
                    /\ lastRun' = IF dry THEN LastOf("grid", ev, NoAfter, None, FALSE, FALSE)
                                  ELSE LastOf("grid", ev, after, b, TRUE, FALSE)
               ELSE IF GridExisting(ev, after) # {}
               THEN /\ UNCHANGED s1_pairs
                    /\ lastRun' = LastOf("grid", ev, after, b, TRUE, FALSE)
               ELSE /\ Cardinality(s1_pairs) < MaxPairs
                    /\ s1_pairs' = s1_pairs \cup {pair}
                    /\ lastRun' = LastOf("grid", ev, after, b, TRUE, TRUE)
            /\ UNCHANGED notPair

\* the rows the query of build_s1_pairs_from_events_cdse.py matches (the
\* event's end and threshold are fixed by its grid and start here)
BuildExisting(ev, after) ==
    {p \in s1_pairs : /\ p.grid_id = PairGrid
                      /\ p.event_start_ts_utc = ev
                      /\ p.after_scene_id = after.scene_id
                      /\ p.source = "cdse"}

\* one round of the event loop of build_s1_pairs_from_events_cdse.py, with
\* log_every <= 1 so that every added row is committed at once
BuildS1Pairs ==
    \E ev \in PairEvents, dry \in BOOLEAN :
      \E after \in AfterAnswers(ev) :
        LET before == SafeFindBeforeScene
            b == IF after = NoAfter THEN None ELSE before
            pair == S1Pair(ev, after, before, "cdse")
        IN  /\ IF after = NoAfter \/ dry
               THEN /\ UNCHANGED s1_pairs
                    /\ lastRun' = IF dry THEN LastOf("build", ev, NoAfter, None, FALSE, FALSE)
                                  ELSE LastOf("build", ev, after, b, TRUE, FALSE)
               ELSE IF BuildExisting(ev, after) # {}
               THEN /\ UNCHANGED s1_pairs
                    /\ lastRun' = LastOf("build", ev, after, b, TRUE, FALSE)
               ELSE /\ Cardinality(s1_pairs) < MaxPairs
                    /\ s1_pairs' = s1_pairs \cup {pair}
                    /\ lastRun' = LastOf("build", ev, after, b, TRUE, TRUE)
            /\ UNCHANGED notPair

\* search_event_pair: the pair built for an event, NoPair for None
SearchEventPair(ev, after, before) ==
    IF after = NoAfter THEN NoPair
    ELSE S1Pair(ev, after, before, "cdse_nationwide_search")

\* the test of line 162 under one mutation
QualifiesBelow(pair) == pair.delay < TriggerSeconds

\* the test of line 162
Qualifies(pair) == pair.delay <= TriggerSeconds

\* process_grid_batch: what it returns for the pairs found in the cell
ProcessGridBatch(found_pairs) ==
    IF \E pair \in found_pairs : Qualifies(pair) THEN found_pairs ELSE {}

\* _bulk_save: the rows it adds (the events of one cell have different
\* starts, so no two pairs of one list share the key of the query)
BulkSave(data_list) ==
    {data \in data_list :
        ~\E p \in s1_pairs : /\ p.grid_id = data.grid_id
                             /\ p.event_start_ts_utc = data.event_start_ts_utc
                             /\ p.source = data.source}

\* search_s1_nationwide.py on the cell: process_grid_batch, then the save
\* of the results buffer (line 261)
SearchS1Nationwide ==
    \E after \in [PairEvents -> AfterAnswers(0) \cup AfterAnswers(1)],
       before \in [PairEvents -> BeforeAnswers(TRUE)] :
        LET found_pairs ==
                {SearchEventPair(ev, after[ev], before[ev]) : ev \in PairEvents}
                    \ {NoPair}
            answers ==
                [ev \in PairEvents |->
                    [after |-> after[ev],
                     before |-> IF after[ev] = NoAfter THEN None ELSE before[ev]]]
            handed == ProcessGridBatch(found_pairs)
            added == BulkSave(handed)
        IN  /\ \A ev \in PairEvents : after[ev] \in AfterAnswers(ev)
            /\ Cardinality(s1_pairs \cup added) <= MaxPairs
            /\ s1_pairs' = s1_pairs \cup added
            /\ lastRun' = [LastOf("nationwide", None, NoAfter, None, TRUE, added # {})
                            EXCEPT !.answers = answers, !.found_pairs = found_pairs,
                                   !.handed = handed]
            /\ UNCHANGED notPair

PairNext ==
    \/ SearchSatelliteForEvent
    \/ DownloadS1EventsByGrid
    \/ BuildS1Pairs
    \/ SearchS1Nationwide

(***************************************************************************)
(* The event loops of the batch scripts, one grid cell's events being      *)
(* followed: build_s1_pairs_from_events_cdse.py (lines 317-553),           *)
(* download_s1_events_by_grid.py (lines 108-195) and process_grid_batch of *)
(* search_s1_nationwide.py (lines 157-163).  What happens to an event is   *)
(* an input of each round:                                                 *)
(*   "pair"          an after scene was found and the pair was kept        *)
(*   "no_after"      the after search returned nothing                     *)
(*   "search_error"  the after search raised                               *)
(*   "db_error"      a database call of the round raised                   *)
(***************************************************************************)
BatchScripts == {"build", "grid", "nationwide"}

\* the rain events of the cell, by event start, in ascending order
EventList(n) == [i \in 1..n |-> i]

\* `reversed(events)` (download_s1_events_by_grid.py, line 108)
Reversed(q) == [i \in 1..Len(q) |-> q[Len(q) + 1 - i]]

\* the orders in which a script's loop can take n events: ordered by the
\* query in build_s1_pairs_from_events_cdse.py (line 131), reversed in
\* download_s1_events_by_grid.py (line 108), and as the database returns the
\* rows of a query without ORDER BY in search_s1_nationwide.py (lines 194-215)
LoopOrders(s, n) ==
    IF s = "build" THEN {EventList(n)}
    ELSE IF s = "grid" THEN {Reversed(EventList(n))}
    ELSE {q \in SeqsOf(1..n, n) : Len(q) = n /\ Distinct(q)}

\* what can happen to one event in a script; process_grid_batch makes no
\* database call
RoundOutcomes(s) ==
    IF s = "nationwide" THEN {"pair", "no_after", "search_error"}
    ELSE {"pair", "no_after", "search_error", "db_error"}

\* the round's exception, if any, is caught inside the loop body
CaughtInLoop(s, outcome) ==
    \/ outcome \in {"pair", "no_after"}
    \/ s \in {"build", "nationwide"}

BatchInit ==
    /\ bScript \in BatchScripts
    /\ \E n \in 1..MaxUnits : units \in LoopOrders(bScript, n)
    /\ outcomes = <<>>
    /\ bState = "running"

BatchIdle ==
    /\ bScript = "none"
    /\ units = <<>>
    /\ outcomes = <<>>
    /\ bState = "done"

\* one round of a loop that has an event left
LoopRound(s) ==
    /\ bScript = s
    /\ bState = "running"
    /\ Len(outcomes) < Len(units)
    /\ \E outcome \in RoundOutcomes(s) :
          /\ outcomes' = Append(outcomes, outcome)
          /\ bState' = IF CaughtInLoop(s, outcome) THEN "running" ELSE "aborted"
    /\ UNCHANGED <<bScript, units>>
    /\ UNCHANGED notBatch

\* build_s1_pairs_from_events_cdse.py, lines 317-553: safe_find_after_scene
\* turns a failed search into None, the handlers of lines 507 and 533-553
\* roll back and go on
BuildLoopRound == LoopRound("build")

\* download_s1_events_by_grid.py, lines 108-193: the only handler is that of
\* line 195, outside the loop
GridLoopRound == LoopRound("grid")

\* process_grid_batch, lines 157-163: search_event_pair turns a failed
\* search into None
NationwideLoopRound == LoopRound("nationwide")

\* the loop has taken its last event
LoopEnd ==
    /\ bState = "running"
    /\ Len(outcomes) = Len(units)
    /\ bState' = "done"
    /\ UNCHANGED <<bScript, units, outcomes>>
    /\ UNCHANGED notBatch

BatchNext ==
    \/ BuildLoopRound
    \/ GridLoopRound
    \/ NationwideLoopRound
    \/ LoopEnd

(***************************************************************************)
(* The OData product lookup of S1CDSEClient.  A name is a sequence of      *)
(* parts, the suffixes "_COG" and ".SAFE" being parts of their own.        *)
(***************************************************************************)
\* the names download_product is called with
ProductNames ==
    {<<"S1A_1">>, <<"S1A_1", "_COG">>, <<"S1A_1", ".SAFE">>,
     <<"S1A_1", ".SAFE", "_COG">>, <<"S1A_1", "_COG", ".SAFE">>, <<"S1A_2">>}

\* the products the catalogue can hold: Id, Name and ContentDate/Start
AllProducts ==
    {[Id |-> 1, Name |-> <<"S1A_1", ".SAFE">>, Start |-> 1],
     [Id |-> 2, Name |-> <<"S1A_1", "_COG", ".SAFE">>, Start |-> 2],
     [Id |-> 3, Name |-> <<"S1A_1", "_T", ".SAFE">>, Start |-> 3]}

EndsWith(name, part) == name # <<>> /\ name[Len(name)] = part

DropLast(name) == SubSeq(name, 1, Len(name) - 1)

\* _normalize_product_name where only "_COG" is stripped
NormalizeCogOnly(name) ==
    IF EndsWith(name, "_COG") THEN DropLast(name) ELSE name

\* _normalize_product_name (lines 285-290)
NormalizeProductName(name) ==
    LET n1 == IF EndsWith(name, "_COG") THEN DropLast(name) ELSE name
    IN  IF EndsWith(n1, ".SAFE") THEN DropLast(n1) ELSE n1

\* `contains(Name, stem)`
Contains(name, stem) ==
    \E i \in 0..(Len(name) - Len(stem)) : SubSeq(name, i + 1, i + Len(stem)) = stem

\* the products a filter selects (lines 296-297)
Matches(filter, stem) ==
    IF filter = "exact"
    THEN {p \in products : p.Name = stem \o <<".SAFE">> \/ p.Name = stem}
    ELSE {p \in products : Contains(p.Name, stem)}

\* `$top 1` with `$orderby ContentDate/Start desc`, then `values[0].get("Id")`
TopId(hits) ==
    IF hits = {} THEN None
    ELSE (CHOOSE p \in hits : \A q \in hits : q.Start <= p.Start).Id

OdataInit ==
    /\ product_name = <<>>
    /\ odata_pc = "idle"
    /\ queries = <<>>
    /\ odata_id = None
    /\ products \in SUBSET AllProducts

OdataIdle ==
    /\ product_name = <<>>
    /\ odata_pc = "idle"
    /\ queries = <<>>
    /\ odata_id = None
    /\ products = {}

\* _get_odata_id_by_name is called (line 292)
GetOdataIdByName ==
    /\ odata_pc \in {"idle", "ret"}
    /\ product_name' \in ProductNames
    /\ odata_pc' = "exact"
    /\ queries' = <<>>
    /\ odata_id' = None
    /\ UNCHANGED products
    /\ UNCHANGED notOdata

\* one round of the loop of lines 299-312: the request succeeds with the
\* top hit of the filter, or it raises and the loop goes on
OdataQuery(filter) ==
    /\ odata_pc = filter
    /\ \E ok \in BOOLEAN :
          LET stem == NormalizeProductName(product_name)
              hit == IF ok THEN TopId(Matches(filter, stem)) ELSE None
          IN  /\ queries' = Append(queries, [filter |-> filter, stem |-> stem, hit |-> hit])
              /\ IF hit # None
                 THEN odata_pc' = "ret" /\ odata_id' = hit
                 ELSE IF filter = "exact"
                      THEN odata_pc' = "fuzzy" /\ UNCHANGED odata_id
                      ELSE odata_pc' = "ret" /\ odata_id' = None
    /\ UNCHANGED <<product_name, products>>
    /\ UNCHANGED notOdata

OdataExactQuery == OdataQuery("exact")

OdataFuzzyQuery == OdataQuery("fuzzy")

OdataNext ==
    \/ GetOdataIdByName
    \/ OdataExactQuery
    \/ OdataFuzzyQuery

(***************************************************************************)
(* The preprocessing watcher: src/scripts/watch_process.py, the script it   *)
(* runs (src/scripts/preprocess_s1_cog.py), the end of run_download that    *)
(* creates the trigger and the Status endpoint that reads the files         *)
(* (src/backend/app/api/grids.py).                                          *)
(***************************************************************************)
\* a request is one pair of grid cell and product, named <grid_id>___<stem>
WatchReqs == {"g1___S1A_1", "g1___S1A_2"}
NoReq == "none"

\* how one run of preprocess_s1_cog.py ends:
\*   "import_error"  esa_snappy is missing, sys.exit(1)             (lines 19-24)
\*   "no_target"     the raw zip is missing, sys.exit(1)            (lines 201-203)
\*   "exists"        the output exists already, return, exit 0      (lines 83-85)
\*   "unreadable"    readProduct gives None, return, exit 0         (lines 93-96)
\*   "no_overlap"    the subset fails or is empty, return, exit 0   (lines 112-121)
\*   "snap_error"    any other exception, logged only, exit 0       (lines 170-171)
\*   "written"       the GeoTIFF is written, exit 0                 (lines 163-168)
PreprocessEnds(hasRaw, hasProc) ==
    {"import_error"}
        \cup (IF ~hasRaw THEN {"no_target"}
              ELSE IF hasProc THEN {"exists"}
              ELSE {"unreadable", "no_overlap", "snap_error", "written"})

\* the exit code of the script
ExitCode(end) == IF end \in {"import_error", "no_target"} THEN 1 ELSE 0

\* update_status (lines 55-65): the file is rewritten; a failed write is logged
\* and leaves the file as it was
UpdateStatus(old, status, ok) == IF ok THEN status ELSE old

WatchInit ==
    /\ raw_path = [r \in WatchReqs |-> FALSE]
    /\ trigger_file = [r \in WatchReqs |-> FALSE]
    /\ status_file = [r \in WatchReqs |-> "none"]
    /\ proc_path = [r \in WatchReqs |-> FALSE]
    /\ fetching = {}
    /\ created = {}
    /\ watch_pc = NoReq

WatchIdle ==
    /\ raw_path = <<>>
    /\ trigger_file = <<>>
    /\ status_file = <<>>
    /\ proc_path = <<>>
    /\ fetching = {}
    /\ created = {}
    /\ watch_pc = NoReq

\* GET /download/status with a grid_id (grids.py lines 265-301): the processed
\* output, then the sidecar, then the task map, then the raw zip
GetDownloadStatus(proc, sidecar, tasks, raw, r) ==
    IF proc[r] THEN "processed"
    ELSE IF sidecar[r] # "none" THEN sidecar[r]
    ELSE IF r \in tasks THEN "downloading"
    ELSE IF raw[r] THEN "downloaded"
    ELSE "not_started"

\* POST /download/product (grids.py lines 250-256): the product enters the task map
StartDownload(r) ==
    /\ r \notin fetching
    /\ fetching' = fetching \cup {r}
    /\ UNCHANGED <<raw_path, trigger_file, status_file, proc_path, created, watch_pc>>
    /\ UNCHANGED notWatch

\* run_download (grids.py lines 319-332): with a saved path the trigger is
\* touched, which the observer reports as created only when the file is new;
\* in every case the product leaves the task map
RunDownload(r) ==
    /\ r \in fetching
    /\ \E saved \in BOOLEAN :
        /\ raw_path' = [raw_path EXCEPT ![r] = @ \/ saved]
        /\ trigger_file' = [trigger_file EXCEPT ![r] = @ \/ saved]
        /\ created' = IF saved /\ ~trigger_file[r] THEN created \cup {r} ELSE created
    /\ fetching' = fetching \ {r}
    /\ UNCHANGED <<status_file, proc_path, watch_pc>>
    /\ UNCHANGED notWatch

\* on_created up to the start of the subprocess (lines 30-45, 67-83): the
\* sidecar is written as "processing" and the script is started
OnCreated(r) ==
    /\ watch_pc = NoReq
    /\ r \in created
    /\ created' = created \ {r}
    /\ \E ok \in BOOLEAN :
        status_file' = [status_file EXCEPT ![r] = UpdateStatus(@, "processing", ok)]
    /\ watch_pc' = r
    /\ UNCHANGED <<raw_path, trigger_file, proc_path, fetching>>
    /\ UNCHANGED notWatch

\* the sidecar after the subprocess (lines 84-91): removed after exit code 0,
\* rewritten as "failed" after CalledProcessError
StatusAfter(old, code, ok) ==
    IF code = 0 THEN "none" ELSE UpdateStatus(old, "failed", ok)

\* the subprocess ends and on_created runs to its end (lines 83-91, 47-50):
\* the sidecar follows the exit code and the trigger is removed
RunPreprocess(r) ==
    /\ watch_pc = r
    /\ \E end \in PreprocessEnds(raw_path[r], proc_path[r]), ok \in BOOLEAN :
        /\ proc_path' = [proc_path EXCEPT ![r] = @ \/ end = "written"]
        /\ status_file' = [status_file EXCEPT ![r] = StatusAfter(@, ExitCode(end), ok)]
    /\ trigger_file' = [trigger_file EXCEPT ![r] = FALSE]
    /\ watch_pc' = NoReq
    /\ UNCHANGED <<raw_path, fetching, created>>
    /\ UNCHANGED notWatch

WatchNext ==
    \E r \in WatchReqs :
        \/ StartDownload(r)
        \/ RunDownload(r)
        \/ OnCreated(r)
        \/ RunPreprocess(r)

(***************************************************************************)
(* The specifications: one subsystem runs, the others stay idle.           *)
(***************************************************************************)
InitSeg == SegInit /\ MatchIdle /\ ClientIdle /\ DlIdle /\ PairIdle /\ BatchIdle /\ OdataIdle /\ WatchIdle

SpecSeg == InitSeg /\ [][SegNext]_vars

InitMatch == MatchIdle /\ SegIdle /\ ClientIdle /\ DlIdle /\ PairIdle /\ BatchIdle /\ OdataIdle /\ WatchIdle

SpecMatch == InitMatch /\ [][MatchNext]_vars

\* two worker threads share one client (download_kyushu_pairs.py, lines 179 and 212-216)
InitAuth == ClientInit({1, 2}) /\ SegIdle /\ MatchIdle /\ DlIdle /\ PairIdle /\ BatchIdle /\ OdataIdle /\ WatchIdle

SpecAuth == InitAuth /\ [][AuthNext]_vars

\* one thread runs catalog searches and downloads
InitStac == ClientInit({1}) /\ SegIdle /\ MatchIdle /\ DlIdle /\ PairIdle /\ BatchIdle /\ OdataIdle /\ WatchIdle

SpecStac == InitStac /\ [][StacNext]_vars

\* the download endpoints with two background routines
InitDl == DlInit /\ SegIdle /\ MatchIdle /\ ClientIdle /\ PairIdle /\ BatchIdle /\ OdataIdle /\ WatchIdle

SpecDl == InitDl /\ [][DlNext]_vars

\* the orchestrators run one after another, in any order and any number of times
InitPair == PairInit /\ SegIdle /\ MatchIdle /\ ClientIdle /\ DlIdle /\ BatchIdle /\ OdataIdle /\ WatchIdle

SpecPair == InitPair /\ [][PairNext]_vars

\* one batch script runs over the events of one grid cell
InitBatch == BatchInit /\ ClientIdle /\ DlIdle /\ MatchIdle /\ PairIdle /\ SegIdle /\ OdataIdle /\ WatchIdle

SpecBatch == InitBatch /\ [][BatchNext]_vars

\* the product lookup is called again and again over one catalogue
InitOdata == OdataInit /\ BatchIdle /\ ClientIdle /\ DlIdle /\ MatchIdle /\ PairIdle /\ SegIdle /\ WatchIdle

SpecOdata == InitOdata /\ [][OdataNext]_vars

\* products are downloaded and the watcher preprocesses them
InitWatch == WatchInit /\ BatchIdle /\ ClientIdle /\ DlIdle /\ MatchIdle /\ OdataIdle /\ PairIdle /\ SegIdle

SpecWatch == InitWatch /\ [][WatchNext]_vars

Spec == SpecMatch

(***************************************************************************)
(* Segmentation as a function of the whole input, folded from the same     *)
(* loop bodies.                                                            *)
(***************************************************************************)
RECURSIVE BuildFold(_, _, _, _)
BuildFold(s, rws, dry, bsize) ==
    IF rws = <<>> THEN s
    ELSE BuildFold(BuildRow(s, Head(rws), dry, bsize), Tail(rws), dry, bsize)

RECURSIVE GridFold(_, _)
GridFold(s, pts) ==
    IF pts = <<>> THEN s ELSE GridFold(GridPoint(s, Head(pts)), Tail(pts))

\* the events the running script makes of the readings rws
Segment(rws) ==
    IF script = "build_gsmap_events"
    THEN BuildFinish(BuildFold(BuildSegInit, rws, dry_run, batch_size), dry_run).events
    ELSE GridFinish(GridFold(GridSegInit, rws)).events

Tolerance == IF script = "build_gsmap_events" THEN BuildToleranceSec ELSE GridToleranceSec

EvStart(e) == IF script = "build_gsmap_events" THEN e.start_ts ELSE e.start
EvEnd(e) == IF script = "build_gsmap_events" THEN e.end_ts ELSE e.end
EvHit(e) == IF script = "build_gsmap_events" THEN e.hit_hours ELSE e.count
EvMax(e) == IF script = "build_gsmap_events" THEN e.max_gauge ELSE e.max_rain

RECURSIVE SumHit(_)
SumHit(evs) == IF evs = <<>> THEN 0 ELSE EvHit(Head(evs)) + SumHit(Tail(evs))

RECURSIVE SumGauge(_)
SumGauge(rws) == IF rws = <<>> THEN 0 ELSE Head(rws).gauge_mm_h + SumGauge(Tail(rws))

RECURSIVE MaxGauge(_)
MaxGauge(rws) ==
    IF Len(rws) = 1 THEN rws[1].gauge_mm_h
    ELSE Max2(Head(rws).gauge_mm_h, MaxGauge(Tail(rws)))

OneCell(rws) == \A i, j \in 1..Len(rws) : rws[i].grid_id = rws[j].grid_id

\* the index of the event that holds the i-th reading: events take the readings in order
EventIndex(evs, i) ==
    CHOOSE k \in 1..Len(evs) :
        /\ SumHit(SubSeq(evs, 1, k)) >= i
        /\ SumHit(SubSeq(evs, 1, k - 1)) < i

\* C4: for an ordered sequence of readings of one grid cell, each reading is in
\* exactly one event: the hit counts of the events add up to the number of
\* readings, every reading's timestamp lies in the [start, end] interval of
\* exactly one event, every event has start <= end and a hit count >= 1; no
\* reading gives no event, one reading gives one event with start = end.
C4_SegmentationCoverage ==
    (segDone /\ OneCell(rows)) =>
        LET evs == seg.events
        IN /\ SumHit(evs) = Len(rows)
           /\ \A i \in 1..Len(rows) :
                  Cardinality({k \in 1..Len(evs) :
                                  /\ EvStart(evs[k]) <= rows[i].ts_utc
                                  /\ rows[i].ts_utc <= EvEnd(evs[k])}) = 1
           /\ \A k \in 1..Len(evs) :
                  EvStart(evs[k]) <= EvEnd(evs[k]) /\ EvHit(evs[k]) >= 1
           /\ (rows = <<>> => evs = <<>>)
           /\ (Len(rows) = 1 =>
                  /\ Len(evs) = 1
                  /\ EvStart(evs[1]) = rows[1].ts_utc
                  /\ EvEnd(evs[1]) = rows[1].ts_utc)

\* a finished run over four readings of one cell that made two events, one of
\* them of several readings
C4_Witness ==
    /\ segDone
    /\ OneCell(rows)
    /\ Len(rows) = 4
    /\ Len(seg.events) = 2
    /\ \E k \in 1..2 : EvHit(seg.events[k]) >= 2

\* the aggregate of the readings rws as one event
Aggregate(rws) ==
    IF script = "build_gsmap_events"
    THEN [grid_id |-> rws[1].grid_id, start_ts |-> rws[1].ts_utc,
          end_ts |-> rws[Len(rws)].ts_utc, hit_hours |-> Len(rws),
          sum_gauge |-> SumGauge(rws), max_gauge |-> MaxGauge(rws)]
    ELSE [start |-> rws[1].ts_utc, end |-> rws[Len(rws)].ts_utc,
          max_rain |-> MaxGauge(rws), count |-> Len(rws)]

ExampleRows(rws) ==
    /\ Len(rws) = 4
    /\ OneCell(rws)
    /\ rws[2].ts_utc = rws[1].ts_utc + 3600
    /\ rws[3].ts_utc = rws[1].ts_utc + 7200
    /\ rws[4].ts_utc = rws[1].ts_utc + 14400

Times(scs) == {scs[i].acquisition_time : i \in 1..Len(scs)}

\* C1: find_after_scene never returns a scene acquired before event_end; a
\* returned scene is one of the search results and no search result acquired at
\* or after event_end is earlier than it; it returns None exactly when no search
\* result is acquired at or after event_end.
C1_AfterSceneEarliest ==
    mPc = "after_done" =>
        LET late == {t \in Times(scenes) : t >= event_end_utc}
        IN /\ found # NoScene =>
                  /\ found.acquisition_time >= event_end_utc
                  /\ \E i \in 1..Len(scenes) : scenes[i] = found
                  /\ \A t \in late : found.acquisition_time <= t
           /\ (found = NoScene) <=> (late = {})

\* find_after_scene returned a scene although the search also returned an
\* earlier scene, acquired before event_end
C1_Witness ==
    /\ mPc = "after_done"
    /\ found # NoScene
    /\ \E t \in Times(scenes) : t < event_end_utc

\* C2: a scene returned by find_before_scene_unbounded is acquired strictly
\* before ref_time_utc, and no scene returned by the search of the same or of a
\* smaller lookback tier is acquired later than it and still before ref_time_utc.
C2_BeforeSceneRecency ==
    (mPc = "before_done" /\ found # NoScene) =>
        /\ found.acquisition_time < ref_time_utc
        /\ \E i \in 1..Len(scenes) : scenes[i] = found
        /\ \A k \in 1..Len(tierBest) :
               tierBest[k] # None => tierBest[k] <= found.acquisition_time
        /\ \A t \in Times(scenes) :
               t < ref_time_utc => t <= found.acquisition_time

\* a before scene was chosen among two candidates of different times, in a tier
\* after the first
C2_Witness ==
    /\ mPc = "before_done"
    /\ found # NoScene
    /\ Len(searches) >= 2
    /\ Cardinality({t \in Times(scenes) : t < ref_time_utc}) >= 2

\* C3: the searches of find_before_scene_unbounded go through the lookback
\* tiers 30, 90, 365, 1825, 3650 days in this order, each over
\* [ref_time - tier, ref_time]; a tier is searched only if no smaller tier
\* returned a scene before ref_time_utc; the lookup stops at the first tier that
\* returns one, and returns None only after all five tiers returned none.
C3_TierOrder ==
    mPc \in {"before", "before_done"} =>
        LET n == Len(searches)
            tiers == <<30, 90, 365, 1825, 3650>>
        IN /\ n <= 5
           /\ Len(tierBest) = n
           /\ \A k \in 1..n :
                  /\ searches[k].days_back = tiers[k]
                  /\ searches[k].start = ref_time_utc - 24 * tiers[k]
                  /\ searches[k].end = ref_time_utc
           /\ \A k \in 1..(n - 1) : tierBest[k] = None
           /\ mPc = "before" => \A k \in 1..n : tierBest[k] = None
           /\ mPc = "before_done" =>
                  /\ found # NoScene <=> (n >= 1 /\ tierBest[n] # None)
                  /\ found = NoScene => n = 5

\* the lookup found its scene in the last tier, after four tiers without one
C3_Witness ==
    /\ mPc = "before_done"
    /\ Len(searches) = 5
    /\ found # NoScene


(***************************************************************************)
(* The retry loop of the catalog search.                                   *)
(***************************************************************************)
Searching == {t \in DOMAIN th : th[t].op = "search"}

\* the delay a Retry-After header asks for, in milliseconds; the HTTP-date of
\* the model lies two minutes after the response
AdvertisedMs(h) == IF IsNumber(h) THEN 1000 * NumberOf(h) ELSE 120 * 1000

\* one request per attempt, never more than max_retries, and the search ends
\* with {} after a 429 only when the attempts are used up
AttemptsBounded(t) ==
    /\ th[t].gets <= MaxRetries
    /\ th[t].status = 429 => th[t].gets = th[t].attempt
    /\ (th[t].status = 429 /\ th[t].pc = "idle")
          => (th[t].result = "empty" /\ th[t].gets = MaxRetries)

\* the sleep without a Retry-After header: base_wait * 2^attempt + jitter
BackoffSleep(t) ==
    (th[t].status = 429 /\ th[t].retry_after = <<>>)
        => /\ th[t].jitter \in 0..2999
           /\ th[t].wait_time = BaseWaitMs * Pow2(th[t].attempt - 1) + th[t].jitter

C7_ServerErrorRetried ==
    \A t \in Searching :
        (th[t].status >= 500 /\ th[t].gets < MaxRetries)
            => (th[t].pc # "idle" /\ th[t].result = "pending" /\ th[t].wait_time > 0)

\* C7 (amended): a 5xx response is not retried: the search ends at once with an
\* empty result, without sleeping and without another attempt.
C7_ServerErrorEnds ==
    \A t \in Searching :
        th[t].status >= 500
            => /\ th[t].pc = "idle"
               /\ th[t].result = "empty"
               /\ th[t].wait_time = 0
               /\ th[t].gets = th[t].attempt + 1

\* the first response was a 500 and the search is over
C7_Witness ==
    \E t \in Searching :
        /\ th[t].status = 500
        /\ th[t].gets = 1
        /\ th[t].result = "empty"

(***************************************************************************)
(* The token cache.                                                        *)
(***************************************************************************)
\* when the token endpoint lets the token expire
TokenExpiry(id) == issued[id].issued_at + 1000 * issued[id].lifetime

\* C8: a call that finds a token cached and now before the stored expiry sends
\* no token request and returns the cached token, which then has at least the
\* 60 s safety margin of validity left.
C8_CachedTokenHasMargin ==
    \A t \in DOMAIN th :
        (th[t].pc = "ret" /\ th[t].hit)
            => /\ th[t].posts = 0
               /\ th[t].tok # None
               /\ TokenExpiry(th[t].tok) - th[t].call_now >= SafetyMarginMs

\* C9: of the threads that call the token operation together with no valid
\* token cached, at most one has a request to the token endpoint under way.
C9_SingleTokenRequest ==
    Cardinality({t \in DOMAIN th : th[t].pc \in {"wait", "store"}}) <= 1

C11_ReturnedScenesSatisfyConstraints ==
    /\ \A i \in 1..Len(scenes) :
          /\ want.platform # <<>>
                => /\ scenes[i].platform # <<>>
                   /\ \/ IsSubstr(DropDash(Lower(want.platform)),
                                  DropDash(Lower(scenes[i].platform)))
                      \/ IsSubstr(DropDash(Lower(scenes[i].platform)),
                                  DropDash(Lower(want.platform)))
          /\ want.orbit_direction # <<>>
                => /\ scenes[i].orbit_direction # <<>>
                   /\ Lower(scenes[i].orbit_direction) = Lower(want.orbit_direction)
          /\ want.relative_orbit # None
                => scenes[i].relative_orbit = want.relative_orbit
    /\ \A i, j \in 1..Len(scenes) :
          i < j => scenes[i].acquisition_time <= scenes[j].acquisition_time

(***************************************************************************)
(* The download endpoints.                                                 *)
(***************************************************************************)
TheProduct == CHOOSE p \in Products : TRUE

\* the answer a status query gets in the current state
StatusNow == StatusOf(download_tasks, file, TheProduct)

\* the routine is between its start and the return of download_product
Downloading(r) == rt[r].pc \in {"get", "stream"}

\* C12: a download that was cancelled and a download that failed report
\* different results to the caller (the status answer, computed from the task
\* map and the file alone, is one and the same after both).
C12_CancelDistinctFromFailure ==
    \A r1, r2 \in Routines :
        (/\ rt[r1].pc = "idle" /\ rt[r1].outcome = "cancelled"
         /\ rt[r2].pc = "idle" /\ rt[r2].outcome = "failed")
            => Returned(rt[r1].outcome) # Returned(rt[r2].outcome)

\* C13: a chunk written while the cancellation flag of the product is set is
\* the last one: the download ends there as cancelled, without a saved path,
\* and the partial file is deleted.
C13_CancelAtChunkBoundary ==
    [][\A r \in Routines :
          (/\ rt[r].pc = "stream"
           /\ TheProduct \in cancellation_requests
           /\ \/ rt'[r].pc = "stream" /\ rt'[r].downloaded = rt[r].downloaded + 1
              \/ rt'[r].pc = "ret" /\ rt'[r].outcome = "cancelled")
              => /\ rt'[r].pc = "ret"
                 /\ rt'[r].outcome = "cancelled"
                 /\ Returned(rt'[r].outcome) = "None"
                 /\ file' = None]_vars

\* C14: while a download routine of the product runs the product is in the
\* task map, and once every routine and the cancel handler are through the
\* product is in neither the task map nor the cancellation set.
C14_TaskEntryOutlivesRoutine ==
    /\ \A r \in Routines : Downloading(r) => TheProduct \in DOMAIN download_tasks
    /\ ((\A r \in Routines : rt[r].pc = "idle") /\ cancel_pc = "idle")
          => /\ TheProduct \notin DOMAIN download_tasks
             /\ TheProduct \notin cancellation_requests

\* C15: a routine started while the product's file exists with nonzero size
\* sends no download request, leaves the file as it is and reports completion.
C15_ExistingFileSkipped ==
    [][\A r \in Routines :
          (rt[r].pc = "queued" /\ rt'[r].pc # "queued" /\ FileComplete(file))
              => /\ rt'[r].pc = "ret"
                 /\ Returned(rt'[r].outcome) = "save_path"
                 /\ file' = file]_vars

\* C16: while a download routine of the product runs a status query answers
\* "downloading" with the progress recorded last, and the status only moves
\* not_started -> downloading -> (downloaded | cancelled), a new download
\* starting again at downloading (a download that failed, which the state
\* machine does not name, may fall back to not_started).
C16_StatusStateMachine ==
    [][/\ (\E r \in Routines : Downloading(r))
            => (StatusNow.status = "downloading"
                /\ StatusNow.progress = download_tasks[TheProduct])
       /\ StatusNow.status # StatusNow'.status
            => \/ <<StatusNow.status, StatusNow'.status>> \in
                     {<<"not_started", "downloading">>, <<"downloading", "downloaded">>,
                      <<"downloading", "cancelled">>, <<"downloaded", "downloading">>,
                      <<"cancelled", "downloading">>}
               \/ /\ StatusNow.status = "downloading"
                  /\ StatusNow'.status = "not_started"
                  /\ \E r \in Routines :
                        /\ rt[r].pc = "fin"
                        /\ rt'[r].pc = "fin2"
                        /\ rt[r].outcome \in {"failed", "no_token", "no_uuid"}]_vars

\* C17: when run_download gets to its trigger step, it creates the trigger
\* file exactly if the product file is there with nonzero size.
C17_TriggerIffFilePresent ==
    [][\A r \in Routines :
          (rt[r].pc = "ret" /\ rt'[r].pc = "fin" /\ triggers = {})
              => (triggers' # {} <=> FileComplete(file))]_vars

(***************************************************************************)
(* The pairing policy of the orchestrators.                                *)
(***************************************************************************)
\* the latest step was one of the per-event orchestrators and came to decide
\* on a row for its event
DecidedBy(orchs) == lastRun.orch \in orchs /\ lastRun.decided

\* the pairs the nationwide search built are those of the events with an
\* after scene, each with the before scene the catalog gave (None for none)
NationwidePairsBuilt ==
    lastRun.orch = "nationwide" =>
        lastRun.found_pairs =
            {S1Pair(ev, lastRun.answers[ev].after, lastRun.answers[ev].before,
                    "cdse_nationwide_search") :
                ev \in {e \in PairEvents : lastRun.answers[e].after # NoAfter}}

\* C18: for every processed event a pair is persisted if and only
\* if an after scene was found - nothing is stored when the after search
\* yields nothing, and when an after scene is found but no before scene, the
\* pair is stored with before recorded as null.
C18_PairIffAfterFound ==
    /\ DecidedBy({"web", "grid", "build"}) =>
          /\ lastRun.after = NoAfter => ~lastRun.added
          /\ lastRun.after # NoAfter =>
                \E p \in s1_pairs : /\ p.grid_id = PairGrid
                                    /\ p.event_start_ts_utc = lastRun.ev
                                    /\ p.after_scene_id = lastRun.after.scene_id
                                    /\ p.before_scene_id = lastRun.before
    /\ NationwidePairsBuilt

(***************************************************************************)
(* Duplicate avoidance.                                                    *)
(***************************************************************************)
\* C19: after any sequence of orchestrator runs, re-runs over the same
\* events and runs with different catalog answers included, storage holds at
\* most one pair for each key (grid_id, event_start_ts, source).
C19_OnePairPerKey ==
    \A p, q \in s1_pairs :
        (/\ p.grid_id = q.grid_id
         /\ p.event_start_ts_utc = q.event_start_ts_utc
         /\ p.source = q.source) => p = q

(***************************************************************************)
(* Qualification of a grid cell by the nationwide search.                  *)
(***************************************************************************)
\* C20 (as stated): the pairs handed on for a cell are all its matched pairs
\* if at least one of them has a delay below the trigger threshold, and
\* none otherwise.
C20_QualifiedBelowTrigger ==
    lastRun.orch = "nationwide" =>
        lastRun.handed =
            IF \E p \in lastRun.found_pairs : p.delay < TriggerSeconds
            THEN lastRun.found_pairs ELSE {}

\* C20 (amended): the pairs handed on for a cell are all its matched pairs,
\* those with a larger delay included, if at least one of them has a delay
\* of at most the trigger threshold (a delay equal to it qualifies), and
\* none otherwise; a cell is never handed on in part.
C20_QualifiedWithinTrigger ==
    lastRun.orch = "nationwide" =>
        /\ lastRun.handed =
              IF \E p \in lastRun.found_pairs : p.delay <= TriggerSeconds
              THEN lastRun.found_pairs ELSE {}
        /\ lastRun.handed \in {lastRun.found_pairs, {}}
        /\ \A p \in lastRun.handed :
              \E q \in s1_pairs : /\ q.grid_id = p.grid_id
                                  /\ q.event_start_ts_utc = p.event_start_ts_utc
                                  /\ q.source = p.source

\* a cell qualified by a pair whose delay equals the threshold, handed on
\* and stored together with its pair of larger delay
C20_Witness ==
    /\ lastRun.orch = "nationwide"
    /\ \E p \in lastRun.found_pairs : p.delay = TriggerSeconds
    /\ \E p \in lastRun.found_pairs : p.delay > TriggerSeconds
    /\ ~\E p \in lastRun.found_pairs : p.delay < TriggerSeconds
    /\ lastRun.handed = lastRun.found_pairs
    /\ lastRun.handed \subseteq s1_pairs

(***************************************************************************)
(* The event loops of the batch scripts.                                   *)
(***************************************************************************)
\* the events the loop has taken so far
Taken == {units[i] : i \in 1..Len(outcomes)}

\* C21: in every batch run a failure while processing one unit is absorbed
\* and every remaining unit is still processed - no per-unit failure ends
\* the run.
C21_FailuresNeverAbort ==
    /\ bState # "aborted"
    /\ bState = "done" => Len(outcomes) = Len(units)

\* C23: within one grid cell's event list the events are paired in
\* chronological order - an event is taken only after every event of the
\* cell with an earlier start.
C23_ChronologicalOrder ==
    \A ev \in Taken : \A earlier \in 1..(ev - 1) : earlier \in Taken

(***************************************************************************)
(* The delay recorded with a pair.                                         *)
(***************************************************************************)
\* the time from the end of a pair's event to the acquisition of its after
\* scene
ExactDelay(p) == DelayOf(p.event_start_ts_utc, p.after_scene_id)

\* C22 (as stated): every persisted pair has delay_hours equal to
\* (after.acquisition_time - event_end_ts) / 1h, and delay_hours >= 0.
C22_DelayIsExact ==
    \A p \in s1_pairs : p.delay = ExactDelay(p) /\ p.delay >= 0

\* C22 (amended): every persisted pair has delay_hours >= 0, its after scene
\* being acquired not before the event's end; the pairs of the batch scripts
\* record (after.acquisition_time - event_end_ts) / 1h itself, those of the
\* /search/satellite handler record it rounded to two decimals.
C22_DelayNonNegative ==
    \A p \in s1_pairs :
        /\ p.delay >= 0
        /\ AcquisitionTime(p.after_scene_id) >= EventEnd(p.event_start_ts_utc)
        /\ p.source = "cdse_web_search" => p.delay = RoundedDelay(ExactDelay(p))
        /\ p.source # "cdse_web_search" => p.delay = ExactDelay(p)

\* storage holds a pair of the handler whose recorded delay is not the exact
\* one, next to a pair of a batch script
C22_Witness ==
    /\ \E p \in s1_pairs : p.source = "cdse_web_search" /\ p.delay # ExactDelay(p)
    /\ \E p \in s1_pairs : p.source # "cdse_web_search" /\ p.delay = ExactDelay(p)

(***************************************************************************)
(* Sessions of build_gsmap_events.py.                                      *)
(***************************************************************************)
\* the loop `for row in rows` is running: the cursor of the yield_per query
\* is open
Streaming == script = "build_gsmap_events" /\ ~segDone

\* C24: no commit is issued on a session while that session holds an open
\* streaming read cursor - the streaming read and the batched commits use
\* different sessions.
C24_NoCommitOnStreamingSession ==
    [][(Streaming /\ Streaming' /\ seg'.commits > seg.commits)
          => CommitSession # StreamSession]_vars

(***************************************************************************)
(* Segmentation and the grid cell of a reading.                            *)
(***************************************************************************)
\* the loop of build_gsmap_events.py has just taken a reading of another
\* grid cell than the reading before it
CellChanged ==
    /\ script = "build_gsmap_events"
    /\ ~segDone
    /\ Len(rows) >= 2
    /\ rows[Len(rows)].grid_id # rows[Len(rows) - 1].grid_id

\* C28 (as stated): the segmentation does not enforce single-cell input -
\* two consecutive readings of different grid cells whose timestamps differ
\* by no more than the gap tolerance are merged into the same event.
C28_MixedCellsMerged ==
    (/\ CellChanged
     /\ rows[Len(rows)].ts_utc - rows[Len(rows) - 1].ts_utc <= BuildToleranceSec)
        => /\ seg.cur_hit_hours >= 2
           /\ seg.cur_start_ts <= rows[Len(rows) - 1].ts_utc

\* C28 (amended): build_gsmap_events.py never merges readings of different
\* grid cells - a reading of another cell closes the open event, whatever
\* its timestamp, and opens an event of its own cell.  The loop of
\* download_s1_events_by_grid.py does not look at the cell of a reading; its
\* query delivers the readings of one cell only.
C28_CellChangeClosesEvent ==
    /\ CellChanged =>
          /\ seg.cur_grid_id = rows[Len(rows)].grid_id
          /\ seg.cur_start_ts = rows[Len(rows)].ts_utc
          /\ seg.cur_hit_hours = 1
          /\ seg.events # <<>>
          /\ seg.events[Len(seg.events)].grid_id = rows[Len(rows) - 1].grid_id
          /\ seg.events[Len(seg.events)].end_ts = rows[Len(rows) - 1].ts_utc
    /\ script = "download_s1_events_by_grid" =>
          \A i \in 1..Len(rows) : rows[i].grid_id = 1

\* a reading of another cell arrived within the tolerance of the reading
\* before it, after an event of two readings, and closed that event
C28_Witness ==
    /\ CellChanged
    /\ rows[Len(rows)].ts_utc - rows[Len(rows) - 1].ts_utc <= BuildToleranceSec
    /\ seg.events # <<>>
    /\ seg.events[Len(seg.events)].hit_hours = 2
    /\ seg.cur_hit_hours = 1

(***************************************************************************)
(* The before scene of a pair.                                             *)
(***************************************************************************)
\* C25: the before scene is searched with the after scene's platform, orbit
\* direction and relative orbit as constraints, so every recorded before
\* scene is of the same track as its after scene and acquired strictly
\* before it.
C25_BeforeSameTrack ==
    \A p \in s1_pairs :
        p.before_scene_id # None =>
            /\ TrackOf(p.before_scene_id) = TrackOf(p.after_scene_id)
            /\ AcquisitionTime(p.before_scene_id) < AcquisitionTime(p.after_scene_id)

(***************************************************************************)
(* Searching again for an event that has a pair.                           *)
(***************************************************************************)
\* C26: a forced search of an event that already has a pair deletes that
\* pair and stores the newly matched pair in its place, so that afterwards
\* exactly one pair exists for (grid_id, event_start_ts); a search without
\* force of such an event leaves storage unchanged.
C26_ForcedSearchReplaces ==
    [][(lastRun'.orch = "web" /\ WebExisting(lastRun'.ev) # {})
          => LET remaining ==
                     {p \in s1_pairs' : /\ p.grid_id = PairGrid
                                        /\ p.event_start_ts_utc = lastRun'.ev}
             IN  IF lastRun'.decided
                 THEN /\ Cardinality(remaining) = 1
                      /\ \A p \in remaining : p.source = "cdse_web_search"
                 ELSE s1_pairs' = s1_pairs]_vars

(***************************************************************************)
(* The OData product lookup.                                               *)
(***************************************************************************)
\* the stem is the name without a trailing "_COG" and without the ".SAFE"
\* before it
StemOf(name, stem) ==
    /\ \E suffix \in {<<>>, <<"_COG">>, <<".SAFE">>, <<".SAFE", "_COG">>} :
          name = stem \o suffix
    /\ ~EndsWith(stem, ".SAFE")
    /\ EndsWith(stem, "_COG") => EndsWith(name, ".SAFE")

\* the product with an Id
ProductOf(id) == CHOOSE p \in products : p.Id = id

\* C27: the lookup strips the suffixes "_COG" and ".SAFE" from the name,
\* sends the exact-name query first and the substring query only when the
\* exact query produced no hit; it returns the Id of the first hit of the
\* first query that has one, and not-found only when both queries have no
\* hit.
C27_ExactThenFuzzy ==
    /\ Len(queries) <= 2
    /\ \A i \in 1..Len(queries) :
          /\ queries[i].filter = IF i = 1 THEN "exact" ELSE "fuzzy"
          /\ StemOf(product_name, queries[i].stem)
          /\ queries[i].hit # None =>
                /\ i = Len(queries)
                /\ \E p \in products : p.Id = queries[i].hit
                /\ LET name == ProductOf(queries[i].hit).Name
                       stem == queries[i].stem
                   IN  IF i = 1
                       THEN name = stem \/ name = stem \o <<".SAFE">>
                       ELSE Contains(name, stem)
    /\ Len(queries) = 2 => queries[1].hit = None
    /\ odata_pc = "ret" =>
          /\ queries # <<>>
          /\ odata_id = queries[Len(queries)].hit
          /\ odata_id = None => Len(queries) = 2

\* a name with both suffixes was looked up: the exact query had no hit and
\* the substring query returned a product
C27_Witness ==
    /\ odata_pc = "ret"
    /\ product_name = <<"S1A_1", ".SAFE", "_COG">>
    /\ Len(queries) = 2
    /\ queries[1].stem = <<"S1A_1">>
    /\ odata_id # None

(***************************************************************************)
(* A cancellation that was accepted.                                       *)
(***************************************************************************)
\* C29: once a cancellation has been accepted for a running download, the
\* download ends as cancelled under every interleaving of Start, Cancel and
\* chunk arrival; in particular the pending cancellation is not lost while
\* the download is still running, whatever else is started meanwhile.
C29_CancellationNotLost ==
    [][(/\ TheProduct \in cancellation_requests
        /\ \E r \in Routines : Downloading(r) /\ rt'[r].pc \in {"get", "stream"})
          => TheProduct \in cancellation_requests']_vars

(***************************************************************************)
(* C30: the watcher's sidecar and the Status of a product.                  *)
(***************************************************************************)
\* what Status answers for a request now
WatchStatus(r) == GetDownloadStatus(proc_path, status_file, fetching, raw_path, r)

\* C30: for every trigger the watcher moves the Status of the product from
\* "processing" to "processed" or "failed" and to nothing else: a request
\* whose Status is "processing" is reported as "processing", "processed" or
\* "failed" after every step.
C30_ProcessingEndsProcessedOrFailed ==
    [][\A r \in WatchReqs :
          WatchStatus(r) = "processing"
              => WatchStatus(r)' \in {"processing", "processed", "failed"}]_vars
====
